---- MODULE Spec2Model ----
(***************************************************************************)
(* Feedback Copilot (feedback-copilot/src/index.ts and its structured-     *)
(* answer variant): the enrichment workflow, the gravity scorer and the    *)
(* POST /chat pipeline, as a state machine.                                *)
(*                                                                         *)
(* Numbers are exact rationals [num, den] (den > 0): a sentiment is the    *)
(* number the model returned, a gravity score is what the code computes    *)
(* from it.  Times are milliseconds since an arbitrary epoch.              *)
(***************************************************************************)
EXTENDS Integers, Sequences, FiniteSets, TLC

(***************************************************************************)
(* Bounds of the model.                                                    *)
(***************************************************************************)
MaxSentNum == 3        \* sentiments are n/d with |n| <= MaxSentNum ...
MaxSentDen == 3        \* ... and 1 <= d <= MaxSentDen (so 3/1 is out of [-1,1])
MaxNowTicks == 202     \* the scorer's clock runs over 0..MaxNowTicks ticks
MaxCreatedTicks == 1   \* created_at is one of the first ticks (or absent)
MaxInstances == 2      \* workflow instances created by POST /ingest
MaxStepRetries == 1    \* times the step executor runs a failed step again
MaxClockTicks == 1     \* times the system clock advances
MaxRandom == 2         \* Math.random() picks among the first MaxRandom samples
MaxRows == 54          \* rows of the largest table the lookups run over

(***************************************************************************)
(* Program constants.                                                      *)
(***************************************************************************)
MsPerHour == 1000 * 60 * 60
ScoreCap == 50
TickMs == MsPerHour \div 2     \* granularity of the modelled clock

NoTime == -1                   \* event.payload.created_at is absent

Categories == {"Bug", "UX", "Feature", "Other"}

(***************************************************************************)
(* Arithmetic helpers.                                                     *)
(***************************************************************************)
Abs(x) == IF x < 0 THEN -x ELSE x

Max(a, b) == IF a >= b THEN a ELSE b

Rat(n, d) == [num |-> n, den |-> d]

RLeq(a, b) == a.num * b.den <= b.num * a.den

REq(a, b) == a.num * b.den = b.num * a.den

RLt(a, b) == a.num * b.den < b.num * a.den

\* Math.round of the non-negative rational n/d: the nearest integer, a tie
\* going up.
MathRound(n, d) == (2 * n + d) \div (2 * d)

\* Math.min(50, x)
MathMin50(x) == IF RLt(Rat(ScoreCap, 1), x) THEN Rat(ScoreCap, 1) ELSE x

(***************************************************************************)
(* calculate-and-store: the gravity calculation.                           *)
(***************************************************************************)
Created_stepTime(created_at, now) == now

\* const created = created_at ? new Date(created_at) : now;
Created(created_at, now) == IF created_at = NoTime THEN now ELSE created_at

\* Math.max(1, Math.floor((now - created) / (1000 * 60 * 60)))
AgeHours(now, created) == Max(1, (now - created) \div MsPerHour)

Multiplier_anyBug(sentiment, category) ==
    IF category = "Bug" THEN 2 ELSE 1

Multiplier_signFlipped(sentiment, category) ==
    IF sentiment.num > 0 /\ category = "Bug" THEN 2 ELSE 1

\* if (analysis.sentiment < 0 && analysis.category === 'Bug') base *= 2;
Multiplier(sentiment, category) ==
    IF sentiment.num < 0 /\ category = "Bug" THEN 2 ELSE 1

Base_multiplied(sentiment, category, ageHours) ==
    Rat(Abs(sentiment.num) * 10 * Multiplier(sentiment, category) * ageHours,
        sentiment.den)

\* let base = Math.abs(sentiment) * 10 / ageHours, doubled for a negative Bug
Base(sentiment, category, ageHours) ==
    Rat(Abs(sentiment.num) * 10 * Multiplier(sentiment, category),
        sentiment.den * ageHours)

PreCap_threeDecimals(sentiment, category, ageHours) ==
    LET base == Base(sentiment, category, ageHours)
    IN  Rat(MathRound(base.num * 1000, base.den), 1000)

\* Math.round(base * 100) / 100: the score before the cap
PreCap(sentiment, category, ageHours) ==
    LET base == Base(sentiment, category, ageHours)
    IN  Rat(MathRound(base.num * 100, base.den), 100)

\* const gravityScore = Math.min(50, Math.round(base * 100) / 100);
GravityScore(sentiment, category, ageHours) ==
    MathMin50(PreCap(sentiment, category, ageHours))

(***************************************************************************)
(* JSON values, as JSON.parse produces them and as the handlers read them. *)
(* JUndefined is the result of reading a property that is not there.       *)
(***************************************************************************)
JNull == [kind |-> "null"]

JUndefined == [kind |-> "undefined"]

JNum(r) == [kind |-> "number", r |-> r]

JStr(s) == [kind |-> "string", s |-> s]

\* an object: a function from its keys to JSON values
JObj(f) == [kind |-> "object", f |-> f]

\* value.key in JavaScript, for a value that is neither null nor undefined:
\* the member of an object, undefined for a missing key or a primitive
Prop(value, key) ==
    IF value.kind = "object" /\ key \in DOMAIN value.f
        THEN value.f[key]
        ELSE JUndefined

\* reading a property of null or undefined throws a TypeError
PropThrows(value) == value.kind \in {"null", "undefined"}

(***************************************************************************)
(* Model text.  A text is a sequence of tokens: braces, Markdown fence     *)
(* markers, brace-free prose words, JSON literals and member keys; a key   *)
(* token stands for the quoted key, its colon and the comma before it.     *)
(* White space is not represented.                                         *)
(***************************************************************************)
LBrace == [t |-> "{"]

RBrace == [t |-> "}"]

\* the opening fence with its language tag
FenceJson == [t |-> "fence-json"]

\* a bare fence marker
Fence == [t |-> "fence"]

Word == [t |-> "word"]

Lit(v) == [t |-> "literal", v |-> v]

Key(k) == [t |-> "key", k |-> k]

\* JSON.parse: a result is [ok, v, next]; next is the index after the value
ParseFail == [ok |-> FALSE, v |-> JUndefined, next |-> 0]

RECURSIVE ParseValue(_, _)
RECURSIVE ParseMembers(_, _, _)

\* the members of an object whose "{" has been read, from index i on, added
\* to the members f read so far (a repeated key keeps its last value)
ParseMembers(toks, i, f) ==
    IF i > Len(toks) THEN ParseFail
    ELSE IF toks[i].t = "}" THEN [ok |-> TRUE, v |-> JObj(f), next |-> i + 1]
    ELSE IF toks[i].t = "key" THEN
        LET m == ParseValue(toks, i + 1)
        IN  IF m.ok
                THEN ParseMembers(toks, m.next,
                        [k \in DOMAIN f \cup {toks[i].k} |->
                            IF k = toks[i].k THEN m.v ELSE f[k]])
                ELSE ParseFail
    ELSE ParseFail

\* one JSON value starting at index i
ParseValue(toks, i) ==
    IF i > Len(toks) THEN ParseFail
    ELSE IF toks[i].t = "literal" THEN [ok |-> TRUE, v |-> toks[i].v, next |-> i + 1]
    ELSE IF toks[i].t = "{" THEN ParseMembers(toks, i + 1, <<>>)
    ELSE ParseFail

\* JSON.parse(jsonStr): the whole text must be exactly one value, otherwise
\* a SyntaxError is thrown (ok = FALSE)
JsonParse(toks) ==
    LET r == ParseValue(toks, 1)
    IN  IF r.ok /\ r.next = Len(toks) + 1 THEN r ELSE ParseFail

Indexes(toks, t) == { i \in 1..Len(toks) : toks[i].t = t }

SetMin(S) == CHOOSE x \in S : \A y \in S : x <= y

SetMax(S) == CHOOSE x \in S : \A y \in S : x >= y

\* jsonStr.match(/\{[\s\S]*\}/): the text from the first "{" to the last "}"
\* when a "}" follows the first "{"; otherwise the text itself
RegexExtract(toks) ==
    LET opens  == Indexes(toks, "{")
        closes == Indexes(toks, "}")
    IN  IF opens # {} /\ closes # {} /\ SetMin(opens) < SetMax(closes)
            THEN SubSeq(toks, SetMin(opens), SetMax(closes))
            ELSE toks

(***************************************************************************)
(* What env.AI.run resolves to: an object with the generated text in       *)
(* .response, or an object without one.                                    *)
(***************************************************************************)
AiText(toks) == [kind |-> "text", response |-> toks]

AiNoText == [kind |-> "notext", response |-> <<>>]

\* no call has returned yet
NoResponse == [kind |-> "none", response |-> <<>>]

\* the try block of both regex extractors: a missing text makes
\* jsonStr.match throw, a text that is not JSON makes JSON.parse throw
ExtractAndParse(resp) ==
    IF resp.kind = "text" THEN JsonParse(RegexExtract(resp.response)) ELSE ParseFail

(***************************************************************************)
(* ai-enrichment: the result of the step for a model response.             *)
(***************************************************************************)
FallbackAnalysis ==
    JObj([sentiment |-> JNum(Rat(0, 1)), category |-> JStr("Other"),
          explanation |-> JStr("Failed to analyze")])

EnrichmentResult_noCatch(resp) == ExtractAndParse(resp).v

\* try { ... return JSON.parse(jsonStr) } catch (e) { return fallback }
EnrichmentResult(resp) ==
    LET r == ExtractAndParse(resp)
    IN  IF r.ok THEN r.v ELSE FallbackAnalysis

(***************************************************************************)
(* State.                                                                  *)
(***************************************************************************)
VARIABLES
    scorer,     \* one run of the gravity calculation: its inputs and result
    now,        \* the clock (ms), as new Date() / Date.now() read it
    wf,         \* the workflow instances, in order of creation
    feedback,   \* the rows of the feedback table
    uuids,      \* how many ids crypto.randomUUID() has handed out
    ingested,   \* the requests POST /ingest has answered, with the responses
    variant,    \* which source of the worker is deployed
    chat,       \* the POST /chat request being handled, and its response
    page        \* the GET /app or GET /dashboard request answered last

wfVars == <<now, wf, feedback, uuids, ingested>>

chatVars == <<variant, chat, page>>

vars == <<scorer, now, wf, feedback, uuids, ingested, variant, chat, page>>

(***************************************************************************)
(* POST /ingest.                                                           *)
(***************************************************************************)
MESSY_SAMPLES ==
    << "login completely broken fix it!!!",
       "I love the new dashboard, very clean",
       "where is the export button? cant find it",
       "app crashes when I upload large images",
       "pricing page is confusing as hell",
       "please add dark mode support",
       "api returns 500 error on tuesdays",
       "documentation link is broken",
       "best tool I've used all year",
       "loading takes forever on my phone",
       "can I invite more than 5 users?",
       "delete my account immediately" >>

\* a request body: text that is not JSON, or a JSON value
BodyInvalid == [kind |-> "invalid", v |-> JUndefined]

BodyJson(v) == [kind |-> "json", v |-> v]

\* JavaScript truthiness of a JSON value
Truthy(v) ==
    CASE v.kind = "string" -> v.s # ""
      [] v.kind = "number" -> v.r.num # 0
      [] v.kind = "object" -> TRUE
      [] OTHER -> FALSE

IngestBodies ==
    { BodyInvalid,
      BodyJson(JNull),
      BodyJson(JObj(<<>>)),
      BodyJson(JObj([text |-> JStr("The login page is too slow")])),
      BodyJson(JObj([text |-> JStr("The login page is too slow"),
                     source |-> JStr("curl_test")])),
      BodyJson(JObj([text |-> JStr("The login page is too slow"),
                     source |-> JStr("")])),
      BodyJson(JObj([text |-> JStr(""), source |-> JStr("curl_test")])) }

\* Math.floor(Math.random() * MESSY_SAMPLES.length), as an index from 1
RandomIndexes == 1..(IF MaxRandom < Len(MESSY_SAMPLES) THEN MaxRandom ELSE Len(MESSY_SAMPLES))

IngestAck == [status |-> 200, ok |-> TRUE, started |-> TRUE]

\* a workflow instance as INGEST_WORKFLOW.create leaves it: the payload, and
\* the run at the start of its first step
NewInstance(content, source, created_at) ==
    [content |-> content, source |-> source, created_at |-> created_at,
     pc |-> "ai-enrichment", i |-> 0, wait |-> 0, stepFailures |-> 0,
     response |-> NoResponse, analysis |-> JUndefined, error |-> "none"]

\* the body as the handler reads it: request.json() rejecting, or body.text
\* throwing on a null body, leaves content '' and source 'api'
IngestContent(body) ==
    IF body.kind = "json" /\ ~PropThrows(body.v) /\ Truthy(Prop(body.v, "text"))
        THEN Prop(body.v, "text").s
        ELSE ""

IngestSource_noDefault(body) ==
    IF body.kind = "json" /\ ~PropThrows(body.v) /\ Truthy(Prop(body.v, "text"))
          /\ Prop(body.v, "source").kind = "string"
        THEN Prop(body.v, "source").s
        ELSE "api"

IngestSource(body) ==
    IF body.kind = "json" /\ ~PropThrows(body.v) /\ Truthy(Prop(body.v, "text"))
          /\ Truthy(Prop(body.v, "source"))
        THEN Prop(body.v, "source").s
        ELSE "api"

Ingest_awaitsWorkflow(body, r) ==
    /\ Len(wf) < MaxInstances
    /\ LET content == IngestContent(body)
           inst == IF content = ""
                       THEN NewInstance(MESSY_SAMPLES[r], "random-generator", now)
                       ELSE NewInstance(content, IngestSource(body), now)
       IN  wf' = Append(wf, [inst EXCEPT !.pc = "complete",
                                         !.analysis = FallbackAnalysis])
    /\ ingested' = Append(ingested, [request |-> body, response |-> IngestAck])
    /\ UNCHANGED <<scorer, variant, chat, page, now, feedback, uuids>>

Ingest(body, r) ==
    /\ Len(wf) < MaxInstances
    /\ LET content == IngestContent(body)
       IN  wf' = Append(wf,
                    IF content = ""
                        THEN NewInstance(MESSY_SAMPLES[r], "random-generator", now)
                        ELSE NewInstance(content, IngestSource(body), now))
    /\ ingested' = Append(ingested, [request |-> body, response |-> IngestAck])
    /\ UNCHANGED <<scorer, variant, chat, page, now, feedback, uuids>>

(***************************************************************************)
(* runAIWithRetry, as the ai-enrichment step runs it, and the step         *)
(* executor around the two steps of FeedbackWorkflow.run.                  *)
(***************************************************************************)
Retries_oneMore == 2 + 1

Retries == 2

\* what env.AI.run can reject with; catch (e: any) takes them all
AiErrors == {"AiError", "AiTimeout"}

BackoffMs_constant(i) == 1000 + 0 * i

\* setTimeout(r, 1000 * (i + 1))
BackoffMs(i) == 1000 * (i + 1)

\* { "sentiment": s, "category": c, "explanation": ... } as the model writes it
AnalysisText(s, c) ==
    << LBrace, Key("sentiment"), Lit(JNum(s)), Key("category"), Lit(JStr(c)),
       Key("explanation"), Lit(JStr("One sentence.")), RBrace >>

Fenced(toks) == <<FenceJson>> \o toks \o <<Fence>>

\* texts the model can answer the enrichment prompt with
EnrichTexts ==
    { AnalysisText(Rat(-1, 2), "Bug"),
      Fenced(AnalysisText(Rat(-1, 2), "Bug")),
      AnalysisText(Rat(3, 1), "Crash"),
      << LBrace, Key("category"), Lit(JStr("Bug")), RBrace >>,
      << Lit(JNull) >>,
      << Lit(JNum(Rat(42, 1))) >>,
      << Word, Word >>,
      << >>,
      << LBrace, Key("sentiment"), Lit(JNum(Rat(-1, 2))) >>,
      << RBrace, Word, LBrace >>,
      <<Word>> \o AnalysisText(Rat(-1, 2), "Bug") \o <<Word>>
          \o AnalysisText(Rat(3, 1), "Crash") }

EnrichResponses == { AiText(t) : t \in EnrichTexts } \cup {AiNoText}

\* a step callback threw: the executor runs the step again, or gives up and
\* the instance ends errored
StepFailed(inst, error) ==
    IF inst.stepFailures < MaxStepRetries
        THEN [inst EXCEPT !.stepFailures = @ + 1, !.i = 0]
        ELSE [inst EXCEPT !.pc = "errored", !.error = error]

WfAiAttemptFails_fallsBack(k, e) ==
    /\ k \in 1..Len(wf)
    /\ wf[k].pc = "ai-enrichment"
    /\ wf' = [wf EXCEPT ![k] =
                IF wf[k].i = Retries
                    THEN [wf[k] EXCEPT !.pc = "calculate-and-store", !.i = 0,
                                       !.analysis = FallbackAnalysis]
                    ELSE [wf[k] EXCEPT !.pc = "backoff", !.wait = BackoffMs(wf[k].i)]]
    /\ UNCHANGED <<scorer, variant, chat, page, now, feedback, uuids, ingested>>

\* one attempt of env.AI.run inside ai-enrichment fails
WfAiAttemptFails(k, e) ==
    /\ k \in 1..Len(wf)
    /\ wf[k].pc = "ai-enrichment"
    /\ wf' = [wf EXCEPT ![k] =
                IF wf[k].i = Retries
                    THEN StepFailed(wf[k], e)
                    ELSE [wf[k] EXCEPT !.pc = "backoff", !.wait = BackoffMs(wf[k].i)]]
    /\ UNCHANGED <<scorer, variant, chat, page, now, feedback, uuids, ingested>>

\* the wait after a failed attempt is over: the loop goes to the next attempt
WfBackoffElapsed(k) ==
    /\ k \in 1..Len(wf)
    /\ wf[k].pc = "backoff"
    /\ wf' = [wf EXCEPT ![k] = [wf[k] EXCEPT !.pc = "ai-enrichment", !.i = @ + 1,
                                            !.wait = 0]]
    /\ UNCHANGED <<scorer, variant, chat, page, now, feedback, uuids, ingested>>

\* one attempt succeeds with resp: the step extracts, parses and returns
WfAiAttemptReturns(k, resp) ==
    /\ k \in 1..Len(wf)
    /\ wf[k].pc = "ai-enrichment"
    /\ wf' = [wf EXCEPT ![k] =
                [wf[k] EXCEPT !.pc = "calculate-and-store", !.i = 0,
                              !.stepFailures = 0, !.response = resp,
                              !.analysis = EnrichmentResult(resp)]]
    /\ UNCHANGED <<scorer, variant, chat, page, now, feedback, uuids, ingested>>

(***************************************************************************)
(* calculate-and-store.                                                    *)
(***************************************************************************)
\* the number the arithmetic sees in analysis.sentiment: null counts as 0
SentimentNumber(v) == IF v.kind = "number" THEN v.r ELSE Rat(0, 1)

\* the string compared with 'Bug'
CategoryString(v) == IF v.kind = "string" THEN v.s ELSE ""

\* D1 rejects a statement that binds undefined (D1_TYPE_ERROR)
BindRejects(values) == \E v \in values : v.kind = "undefined"

\* the values crypto.randomUUID() hands out, in order
UuidPool == [n \in 1..(MaxInstances * (MaxStepRetries + 2)) |-> "id-" \o ToString(n)]

Row(id, inst, created) ==
    [id |-> id, content |-> inst.content, source |-> inst.source,
     sentiment |-> Prop(inst.analysis, "sentiment"),
     gravity_score |->
        GravityScore(SentimentNumber(Prop(inst.analysis, "sentiment")),
                     CategoryString(Prop(inst.analysis, "category")),
                     AgeHours(now, created)),
     category |-> Prop(inst.analysis, "category"),
     explanation |-> Prop(inst.analysis, "explanation"),
     created_at |-> created]

\* the error the callback throws for this analysis, "none" when it inserts
StoreError(analysis) ==
    IF PropThrows(analysis) THEN "TypeError"
    ELSE IF BindRejects({ Prop(analysis, "sentiment"), Prop(analysis, "category"),
                          Prop(analysis, "explanation") })
        THEN "D1_TYPE_ERROR"
    ELSE "none"

WfCalculateAndStore_replaces(k) ==
    /\ k \in 1..Len(wf)
    /\ wf[k].pc = "calculate-and-store"
    /\ IF StoreError(wf[k].analysis) # "none"
          THEN /\ wf' = [wf EXCEPT ![k] = StepFailed(wf[k], StoreError(wf[k].analysis))]
               /\ UNCHANGED <<feedback, uuids>>
          ELSE /\ uuids' = uuids + 1
               /\ feedback' =
                    { Row(UuidPool[uuids + 1], wf[k], Created(wf[k].created_at, now)) }
               /\ wf' = [wf EXCEPT ![k] = [wf[k] EXCEPT !.pc = "complete"]]
    /\ UNCHANGED <<scorer, variant, chat, page, now, ingested>>

WfCalculateAndStore(k) ==
    /\ k \in 1..Len(wf)
    /\ wf[k].pc = "calculate-and-store"
    /\ IF StoreError(wf[k].analysis) # "none"
          THEN /\ wf' = [wf EXCEPT ![k] = StepFailed(wf[k], StoreError(wf[k].analysis))]
               /\ UNCHANGED <<feedback, uuids>>
          ELSE /\ uuids' = uuids + 1
               /\ feedback' = feedback \cup
                    { Row(UuidPool[uuids + 1], wf[k], Created(wf[k].created_at, now)) }
               /\ wf' = [wf EXCEPT ![k] = [wf[k] EXCEPT !.pc = "complete"]]
    /\ UNCHANGED <<scorer, variant, chat, page, now, ingested>>

(***************************************************************************)
(* The lookups of POST /chat over the feedback table.                      *)
(***************************************************************************)
\* the characters of the strings that are stored as content or searched for
CharsOf(s) ==
    CASE
      s = "login completely broken fix it!!!" ->
        <<
           "l", "o", "g", "i", "n", " ", "c", "o", "m", "p", "l", "e",
           "t", "e", "l", "y", " ", "b", "r", "o", "k", "e", "n", " ",
           "f", "i", "x", " ", "i", "t", "!", "!", "!" >>
    [] s = "I love the new dashboard, very clean" ->
        <<
           "I", " ", "l", "o", "v", "e", " ", "t", "h", "e", " ", "n",
           "e", "w", " ", "d", "a", "s", "h", "b", "o", "a", "r", "d",
           ",", " ", "v", "e", "r", "y", " ", "c", "l", "e", "a", "n" >>
    [] s = "where is the export button? cant find it" ->
        <<
           "w", "h", "e", "r", "e", " ", "i", "s", " ", "t", "h", "e",
           " ", "e", "x", "p", "o", "r", "t", " ", "b", "u", "t", "t",
           "o", "n", "?", " ", "c", "a", "n", "t", " ", "f", "i", "n",
           "d", " ", "i", "t" >>
    [] s = "app crashes when I upload large images" ->
        <<
           "a", "p", "p", " ", "c", "r", "a", "s", "h", "e", "s", " ",
           "w", "h", "e", "n", " ", "I", " ", "u", "p", "l", "o", "a",
           "d", " ", "l", "a", "r", "g", "e", " ", "i", "m", "a", "g",
           "e", "s" >>
    [] s = "pricing page is confusing as hell" ->
        <<
           "p", "r", "i", "c", "i", "n", "g", " ", "p", "a", "g", "e",
           " ", "i", "s", " ", "c", "o", "n", "f", "u", "s", "i", "n",
           "g", " ", "a", "s", " ", "h", "e", "l", "l" >>
    [] s = "please add dark mode support" ->
        <<
           "p", "l", "e", "a", "s", "e", " ", "a", "d", "d", " ", "d",
           "a", "r", "k", " ", "m", "o", "d", "e", " ", "s", "u", "p",
           "p", "o", "r", "t" >>
    [] s = "api returns 500 error on tuesdays" ->
        <<
           "a", "p", "i", " ", "r", "e", "t", "u", "r", "n", "s", " ",
           "5", "0", "0", " ", "e", "r", "r", "o", "r", " ", "o", "n",
           " ", "t", "u", "e", "s", "d", "a", "y", "s" >>
    [] s = "documentation link is broken" ->
        <<
           "d", "o", "c", "u", "m", "e", "n", "t", "a", "t", "i", "o",
           "n", " ", "l", "i", "n", "k", " ", "i", "s", " ", "b", "r",
           "o", "k", "e", "n" >>
    [] s = "best tool I've used all year" ->
        <<
           "b", "e", "s", "t", " ", "t", "o", "o", "l", " ", "I", "'",
           "v", "e", " ", "u", "s", "e", "d", " ", "a", "l", "l", " ",
           "y", "e", "a", "r" >>
    [] s = "loading takes forever on my phone" ->
        <<
           "l", "o", "a", "d", "i", "n", "g", " ", "t", "a", "k", "e",
           "s", " ", "f", "o", "r", "e", "v", "e", "r", " ", "o", "n",
           " ", "m", "y", " ", "p", "h", "o", "n", "e" >>
    [] s = "can I invite more than 5 users?" ->
        <<
           "c", "a", "n", " ", "I", " ", "i", "n", "v", "i", "t", "e",
           " ", "m", "o", "r", "e", " ", "t", "h", "a", "n", " ", "5",
           " ", "u", "s", "e", "r", "s", "?" >>
    [] s = "delete my account immediately" ->
        <<
           "d", "e", "l", "e", "t", "e", " ", "m", "y", " ", "a", "c",
           "c", "o", "u", "n", "t", " ", "i", "m", "m", "e", "d", "i",
           "a", "t", "e", "l", "y" >>
    [] s = "The login page is too slow" ->
        <<
           "T", "h", "e", " ", "l", "o", "g", "i", "n", " ", "p", "a",
           "g", "e", " ", "i", "s", " ", "t", "o", "o", " ", "s", "l",
           "o", "w" >>
    [] s = "slow" ->
        <<
           "s", "l", "o", "w" >>
    [] s = "" -> << >>
    [] s = "broken" -> << "b", "r", "o", "k", "e", "n" >>
    [] s = "LOGIN" -> << "L", "O", "G", "I", "N" >>
    [] s = "%" -> << "%" >>
    [] s = "5_0" -> << "5", "_", "0" >>
    [] s = "undefined" ->
        <<
           "u", "n", "d", "e", "f", "i", "n", "e", "d" >>

UpperCase ==
    << "A", "B", "C", "D", "E", "F", "G", "H", "I", "J", "K", "L", "M",
       "N", "O", "P", "Q", "R", "S", "T", "U", "V", "W", "X", "Y", "Z" >>

LowerCase ==
    << "a", "b", "c", "d", "e", "f", "g", "h", "i", "j", "k", "l", "m",
       "n", "o", "p", "q", "r", "s", "t", "u", "v", "w", "x", "y", "z" >>

\* LIKE folds the case of ASCII letters
Fold(c) ==
    IF \E n \in 1..Len(UpperCase) : UpperCase[n] = c
        THEN LowerCase[CHOOSE n \in 1..Len(UpperCase) : UpperCase[n] = c]
        ELSE c

RECURSIVE LikeMatch(_, _)
\* SQLite's text LIKE pattern: % matches any run of characters, _ matches
\* any one character, anything else matches itself up to case
LikeMatch(text, pattern) ==
    IF pattern = <<>> THEN text = <<>>
    ELSE IF Head(pattern) = "%"
        THEN \E n \in 0..Len(text) :
                LikeMatch(SubSeq(text, n + 1, Len(text)), Tail(pattern))
    ELSE IF text = <<>> THEN FALSE
    ELSE IF Head(pattern) = "_" \/ Fold(Head(pattern)) = Fold(Head(text))
        THEN LikeMatch(Tail(text), Tail(pattern))
    ELSE FALSE

ByGravityThenCreated_gravityOnly(a, b) == RLt(b.gravity_score, a.gravity_score)

\* ORDER BY gravity_score DESC, created_at DESC: a comes strictly before b
ByGravityThenCreated(a, b) ==
    \/ RLt(b.gravity_score, a.gravity_score)
    \/ REq(a.gravity_score, b.gravity_score) /\ a.created_at > b.created_at

ByCreated_ascending(a, b) == a.created_at < b.created_at

\* ORDER BY created_at DESC
ByCreated(a, b) == a.created_at > b.created_at

\* a comes strictly before b under the ORDER BY clause (never, without one)
OrderBefore(orderBy, a, b) ==
    CASE orderBy = "gravity_score DESC, created_at DESC" -> ByGravityThenCreated(a, b)
      [] orderBy = "created_at DESC" -> ByCreated(a, b)
      [] OTHER -> FALSE

RECURSIVE Ordered(_, _)
\* the rows of S in every order the ORDER BY allows (rows that tie come in
\* any order): a row no other row comes before, then the rest in order
Ordered(S, orderBy) ==
    IF S = {} THEN { << >> }
    ELSE UNION { { <<a>> \o q : q \in Ordered(S \ {a}, orderBy) } :
                 a \in { x \in S : \A y \in S : ~OrderBefore(orderBy, y, x) } }

\* LIMIT n
Limit(q, n) == SubSeq(q, 1, IF Len(q) < n THEN Len(q) ELSE n)

\* the statement a dispatched intent prepares, with its bound parameter
TopIssuesQuery == [sql |-> "top_issues", date |-> 0, pattern |-> <<>>, id |-> ""]

BugsRecentQuery(date) == [sql |-> "bugs_recent", date |-> date, pattern |-> <<>>, id |-> ""]

SearchQuery(pattern) == [sql |-> "search", date |-> 0, pattern |-> pattern, id |-> ""]

SummaryQuery(date) == [sql |-> "summary", date |-> date, pattern |-> <<>>, id |-> ""]

DrilldownQuery(id) == [sql |-> "issue_drilldown", date |-> 0, pattern |-> <<>>, id |-> id]

NoQuery == [sql |-> "none", date |-> 0, pattern |-> <<>>, id |-> ""]

\* the result sets the statement can return on the table as it is now
QueryResults(q) ==
    CASE q.sql = "top_issues" ->
            { Limit(r, 10) : r \in Ordered(feedback, "gravity_score DESC, created_at DESC") }
      [] q.sql = "bugs_recent" ->
            { Limit(r, 10) : r \in
                Ordered({ row \in feedback : /\ row.category = JStr("Bug")
                                             /\ row.created_at >= q.date },
                        "gravity_score DESC, created_at DESC") }
      [] q.sql = "search" ->
            { Limit(r, 10) : r \in
                Ordered({ row \in feedback : LikeMatch(CharsOf(row.content), q.pattern) },
                        "gravity_score DESC, created_at DESC") }
      [] q.sql = "summary" ->
            { Limit(r, 50) : r \in
                Ordered({ row \in feedback : row.created_at >= q.date },
                        "created_at DESC") }
      [] q.sql = "issue_drilldown" ->
            { Limit(r, 1) : r \in Ordered({ row \in feedback : row.id = q.id }, "") }
      [] OTHER -> { <<>> }

(***************************************************************************)
(* POST /chat: intent extraction, dispatch, lookup, answer.                *)
(***************************************************************************)
Intents == {"top_issues", "bugs_recent", "search", "summary", "issue_drilldown", "help"}

EmptyArray == [kind |-> "array", a |-> <<>>]

\* the generated text as a JSON string value
JText(resp) == IF resp.kind = "text" THEN [kind |-> "text", toks |-> resp.response]
                                     ELSE JUndefined

\* the rows of a result set as a JSON array
JRows(rows) == [kind |-> "array", a |-> rows]

\* let intentData = { intent: 'help', params: { hours: 0, days: 0, term: '', id: '' } }
DefaultIntent ==
    JObj([intent |-> JStr("help"),
          params |-> JObj([hours |-> JNum(Rat(0, 1)), days |-> JNum(Rat(0, 1)),
                           term |-> JStr(""), id |-> JStr("")])])

IntentData_noCatch(resp) == ExtractAndParse(resp).v

\* try { ... intentData = JSON.parse(jsonStr) } catch (e) { /* strict default */ }
IntentData(resp) ==
    LET r == ExtractAndParse(resp)
    IN  IF r.ok THEN r.v ELSE DefaultIntent

\* the body of the catch-all 500 response: index.ts returns the error's
\* message and stack, the structured-answer variant an error summary
ErrorBody(v, message) ==
    IF v = "markdown"
        THEN JObj([error |-> JStr(message), stack |-> JStr("stack")])
        ELSE JObj([summary |-> JObj([headline |-> JStr("System Error"),
                                     details |-> JStr(message),
                                     stats |-> EmptyArray]),
                   top_issues |-> EmptyArray, patterns |-> EmptyArray,
                   follow_up_question |-> JStr("Please try again later.")])

\* the placeholder of the structured-answer variant for an unparsable answer
AnswerPlaceholder ==
    JObj([summary |-> JObj([headline |-> JStr("Error analyzing data"),
                            details |-> JStr("The AI returned an invalid format."),
                            stats |-> EmptyArray]),
          top_issues |-> EmptyArray, patterns |-> EmptyArray,
          follow_up_question |-> JStr("Try a simpler query.")])

\* "Robust JSON extraction" of the structured-answer variant: drop the fence
\* markers, then substring(firstOpen, lastClose + 1) when both braces occur
\* (substring swaps its arguments when the first is the larger)

\* a string with every fence marker inside it removed ([fence] stands for
\* the three backquotes of a marker)
Unfenced(s) ==
    CASE s = "Run [fence]wrangler tail[fence] to see it" -> "Run wrangler tail to see it"
      [] OTHER -> s

\* jsonStr.replace(fence-json, '').replace(fence, ''): the markers go,
\* wherever they are in the text, inside string literals included
FenceStrip(toks) ==
    LET kept == SelectSeq(toks, LAMBDA tok : tok.t \notin {"fence-json", "fence"})
    IN  [i \in 1..Len(kept) |->
            IF kept[i].t = "literal" /\ kept[i].v.kind = "string"
                THEN Lit(JStr(Unfenced(kept[i].v.s)))
                ELSE kept[i]]

BraceSpan(toks) ==
    LET opens  == Indexes(toks, "{")
        closes == Indexes(toks, "}")
    IN  IF opens = {} \/ closes = {} THEN toks
        ELSE IF SetMin(opens) <= SetMax(closes)
            THEN SubSeq(toks, SetMin(opens), SetMax(closes))
            ELSE SubSeq(toks, SetMax(closes) + 1, SetMin(opens) - 1)

StructuredAnswer_initial(resp) ==
    LET r == IF resp.kind = "text"
                THEN JsonParse(BraceSpan(FenceStrip(resp.response)))
                ELSE ParseFail
    IN  IF r.ok THEN r.v ELSE JObj(<< >>)

StructuredAnswer(resp) ==
    LET r == IF resp.kind = "text"
                THEN JsonParse(BraceSpan(FenceStrip(resp.response)))
                ELSE ParseFail
    IN  IF r.ok THEN r.v ELSE AnswerPlaceholder

NumberOr_defaultOnly(v, default) == Rat(default, 1)

\* params.hours || 24, params.days || 7: the number, or the default when
\* the value is falsy
NumberOr(v, default) == IF Truthy(v) /\ v.kind = "number" THEN v.r ELSE Rat(default, 1)

\* Date.now() - n * unit, for the rational n
Ago(n, unit) == now - (n.num * unit) \div n.den

\* the characters of a value interpolated into the LIKE pattern
Interpolated(v) == IF v.kind = "string" THEN CharsOf(v.s) ELSE CharsOf("undefined")

\* a POST /chat request: whether requireAuth would let it pass (the header is
\* present or the host is local), and its body
ChatBodies ==
    { BodyInvalid,
      BodyJson(JNull),
      BodyJson(JObj(<<>>)),
      BodyJson(JObj([query |-> JStr("Show me the top issues")])) }

\* url.hostname of a request, and the value of its
\* Cf-Access-Authenticated-User-Email header (NoHeader when it has none)
LocalHosts == {"localhost", "127.0.0.1"}

PublicHost == "feedback.example.com"

NoHeader == "(no header)"

UserEmail == "user@example.com"

requireAuth_headerNotRead(req) ==
    IF req.host \in LocalHosts THEN TRUE
    ELSE req.email # ""

\* requireAuth(request): the host is local, or the header has a value
requireAuth(req) ==
    IF req.host \in LocalHosts THEN TRUE
    ELSE req.email # NoHeader /\ req.email # ""

\* whether the deployed source lets the request through: index.ts returns
\* 401 unless requireAuth(request); part_001 has the check commented out
Admitted(req) == variant = "markdown" => requireAuth(req)

ChatRequests == [host : {PublicHost}, email : {NoHeader, UserEmail}, body : ChatBodies]

NoRequest == [host |-> PublicHost, email |-> NoHeader, body |-> BodyInvalid]

\* calls counts the env.AI.run calls of the invocation of runAIWithRetry
\* that is running or ran last; failed holds what the failed attempts of the
\* running invocation threw, in order
IdleChat ==
    [pc |-> "idle", request |-> NoRequest, i |-> 0, wait |-> 0,
     calls |-> 0, failed |-> <<>>,
     query |-> JUndefined,
     routerResponse |-> NoResponse, intentData |-> JUndefined,
     pending |-> NoQuery, lookups |-> 0, results |-> <<>>,
     composerResponse |-> NoResponse,
     error |-> "none", status |-> 0, body |-> JUndefined]

Respond(c, status, body) ==
    [c EXCEPT !.pc = "responded", !.status = status, !.body = body]

\* catch (err) { return new Response(JSON.stringify(...), { status: 500 }) }
Caught(c, error) ==
    [Respond(c, 500, ErrorBody(variant, error)) EXCEPT !.error = error]

\* the request arrives: requireAuth (index.ts only), request.json(),
\* body.query, and the start of the router call
ChatRequest(req) ==
    /\ chat.pc \in {"idle", "responded"}
    /\ LET c == [IdleChat EXCEPT !.request = req]
       IN  chat' =
             IF ~Admitted(req)
                 THEN Respond(c, 401, JStr("Unauthorized"))
             ELSE IF req.body.kind = "invalid" THEN Caught(c, "SyntaxError")
             ELSE IF PropThrows(req.body.v) THEN Caught(c, "TypeError")
             ELSE [c EXCEPT !.pc = "router", !.query = Prop(req.body.v, "query")]
    /\ UNCHANGED <<scorer, wfVars, variant, page>>

\* one attempt of env.AI.run fails, in the router or the composer call
ChatAiAttemptFails_throwsFirst(e) ==
    /\ chat.pc \in {"router", "composer"}
    /\ LET c == [chat EXCEPT !.calls = @ + 1, !.failed = Append(@, e)]
       IN  chat' = IF c.i = Retries
                      THEN Caught(c, c.failed[1])
                      ELSE [c EXCEPT !.pc = IF c.pc = "router"
                                              THEN "router-backoff"
                                              ELSE "composer-backoff",
                                     !.wait = BackoffMs(c.i)]
    /\ UNCHANGED <<scorer, wfVars, variant, page>>

ChatAiAttemptFails(e) ==
    /\ chat.pc \in {"router", "composer"}
    /\ LET c == [chat EXCEPT !.calls = @ + 1, !.failed = Append(@, e)]
       IN  chat' = IF c.i = Retries
                      THEN Caught(c, e)
                      ELSE [c EXCEPT !.pc = IF c.pc = "router"
                                              THEN "router-backoff"
                                              ELSE "composer-backoff",
                                     !.wait = BackoffMs(c.i)]
    /\ UNCHANGED <<scorer, wfVars, variant, page>>

ChatBackoffElapsed ==
    /\ chat.pc \in {"router-backoff", "composer-backoff"}
    /\ chat' = [chat EXCEPT !.pc = IF chat.pc = "router-backoff"
                                      THEN "router" ELSE "composer",
                            !.i = @ + 1, !.wait = 0]
    /\ UNCHANGED <<scorer, wfVars, variant, page>>

\* const { intent, params } = intentData, and the if/else chain up to the
\* await of the lookup (or of the composer call when no branch is taken)
Dispatch(c, intentData) ==
    LET intent == Prop(intentData, "intent")
        params == Prop(intentData, "params")
        ask(q) == [c EXCEPT !.pc = "lookup", !.pending = q]
    IN  IF PropThrows(intentData) THEN Caught(c, "TypeError")
        ELSE IF intent = JStr("top_issues") THEN ask(TopIssuesQuery)
        ELSE IF intent = JStr("bugs_recent") THEN
            IF PropThrows(params) THEN Caught(c, "TypeError")
            ELSE ask(BugsRecentQuery(Ago(NumberOr(Prop(params, "hours"), 24), MsPerHour)))
        ELSE IF intent = JStr("search") THEN
            IF PropThrows(params) THEN Caught(c, "TypeError")
            ELSE ask(SearchQuery(<<"%">> \o Interpolated(Prop(params, "term")) \o <<"%">>))
        ELSE IF intent = JStr("summary") THEN
            IF PropThrows(params) THEN Caught(c, "TypeError")
            ELSE ask(SummaryQuery(Ago(NumberOr(Prop(params, "days"), 7), 24 * MsPerHour)))
        ELSE IF intent = JStr("issue_drilldown") THEN
            IF PropThrows(params) THEN Caught(c, "TypeError")
            ELSE IF BindRejects({Prop(params, "id")}) THEN Caught(c, "D1_TYPE_ERROR")
            ELSE ask(DrilldownQuery(Prop(params, "id").s))
        ELSE [c EXCEPT !.pc = "composer", !.calls = 0]

\* the router call returns resp: intent extraction and dispatch
ChatRouterReturns(resp) ==
    /\ chat.pc = "router"
    /\ chat' = Dispatch([chat EXCEPT !.i = 0, !.calls = @ + 1, !.failed = <<>>,
                                     !.routerResponse = resp,
                                     !.intentData = IntentData(resp)],
                        IntentData(resp))
    /\ UNCHANGED <<scorer, wfVars, variant, page>>

ChatLookup_again ==
    /\ chat.pc = "lookup"
    /\ \E rows \in QueryResults(chat.pending) :
         chat' = [chat EXCEPT !.pc = IF chat.lookups = 0 THEN "lookup" ELSE "composer",
                              !.results = rows, !.lookups = @ + 1, !.calls = 0]
    /\ UNCHANGED <<scorer, wfVars, variant, page>>

\* the prepared statement runs
ChatLookup ==
    /\ chat.pc = "lookup"
    /\ \E rows \in QueryResults(chat.pending) :
         chat' = [chat EXCEPT !.pc = "composer", !.results = rows, !.lookups = @ + 1,
                              !.calls = 0]
    /\ UNCHANGED <<scorer, wfVars, variant, page>>

\* the composer call returns resp: the response is built and returned
ChatComposerReturns(resp) ==
    /\ chat.pc = "composer"
    /\ LET c == [chat EXCEPT !.calls = @ + 1, !.failed = <<>>,
                             !.composerResponse = resp]
       IN  chat' =
             IF variant = "markdown"
                 THEN Respond(c, 200,
                        JObj([answer |-> JText(resp),
                              intent |-> Prop(c.intentData, "intent"),
                              rows |-> JRows(c.results)]))
                 ELSE Respond(c, 200, StructuredAnswer(resp))
    /\ UNCHANGED <<scorer, wfVars, variant, page>>

(***************************************************************************)
(* GET /app and GET /dashboard: the rendered views of the table.           *)
(***************************************************************************)
NoPage == [route |-> "none", request |-> [host |-> PublicHost, email |-> NoHeader],
           status |-> 0, items |-> << >>]

\* new Response('Unauthorized', { status: 401 })
Unauthorized(route, req) ==
    [route |-> route, request |-> req, status |-> 401, items |-> << >>]

\* new Response(html(results), ...): the page lists the rows of the result
\* set in its order
Rendered(route, req, results) ==
    [route |-> route, request |-> req, status |-> 200, items |-> results]

\* SELECT * FROM feedback ORDER BY gravity_score DESC, created_at DESC LIMIT n
TopRows(n) == { Limit(r, n) : r \in Ordered(feedback, "gravity_score DESC, created_at DESC") }

\* GET /app: the chat page with the five top rows
GetApp(req) ==
    /\ IF ~Admitted(req)
          THEN page' = Unauthorized("/app", req)
          ELSE \E results \in TopRows(5) : page' = Rendered("/app", req, results)
    /\ UNCHANGED <<scorer, wfVars, variant, chat>>

\* GET /dashboard: the table of the ten top rows
GetDashboard(req) ==
    /\ IF ~Admitted(req)
          THEN page' = Unauthorized("/dashboard", req)
          ELSE \E results \in TopRows(10) : page' = Rendered("/dashboard", req, results)
    /\ UNCHANGED <<scorer, wfVars, variant, chat>>

(***************************************************************************)
(* The clock and the initial state.                                        *)
(***************************************************************************)
ClockStepMs == 3 * TickMs

Tick ==
    /\ now < MaxClockTicks * ClockStepMs
    /\ now' = now + ClockStepMs
    /\ UNCHANGED <<scorer, variant, chat, page, wf, feedback, uuids, ingested>>

NoScore == Rat(-1, 1)

IdleScorer ==
    scorer = [sentiment |-> Rat(0, 1), category |-> "Other", created_at |-> NoTime,
              now |-> 0, pc |-> "idle", ageHours |-> 0, gravityScore |-> NoScore]

\* nothing ingested, nothing stored
IdleSystem ==
    /\ now = 0
    /\ wf = <<>>
    /\ feedback = {}
    /\ uuids = 0
    /\ ingested = <<>>

(***************************************************************************)
(* Spec: the ingestion pipeline (POST /ingest, the workflow with its step  *)
(* executor, the table) under every request body and model response; no   *)
(* chat request is made.                                                   *)
(***************************************************************************)
Init ==
    /\ IdleScorer
    /\ IdleSystem
    /\ variant = "markdown"
    /\ chat = IdleChat
    /\ page = NoPage

\* the bodies the pipeline is run with: one without text, one with text and
\* source (SpecIngest runs the handler with every body)
PipelineBodies ==
    { BodyInvalid,
      BodyJson(JObj([text |-> JStr("The login page is too slow"),
                     source |-> JStr("curl_test")])) }

Next ==
    \/ \E body \in PipelineBodies, r \in RandomIndexes : Ingest(body, r)
    \/ \E k \in 1..MaxInstances, e \in AiErrors : WfAiAttemptFails(k, e)
    \/ \E k \in 1..MaxInstances : WfBackoffElapsed(k)
    \/ \E k \in 1..MaxInstances, resp \in EnrichResponses : WfAiAttemptReturns(k, resp)
    \/ \E k \in 1..MaxInstances : WfCalculateAndStore(k)
    \/ Tick

Spec == Init /\ [][Next]_vars

(***************************************************************************)
(* SpecChat: POST /chat in either variant under every request and model    *)
(* response, over a table filled by the pipeline; the pipeline runs here   *)
(* with one request body and with model responses that parse.              *)
(***************************************************************************)
\* { "intent": ..., "params": { "hours": h, "days": d, "term": t, "id": id } }
IntentText(intent, h, d, t, id) ==
    << LBrace, Key("intent"), Lit(JStr(intent)), Key("params"), LBrace,
       Key("hours"), Lit(JNum(Rat(h, 1))), Key("days"), Lit(JNum(Rat(d, 1))),
       Key("term"), Lit(JStr(t)), Key("id"), Lit(JStr(id)), RBrace, RBrace >>

\* texts the model can answer the router prompt with
RouterTexts ==
    { IntentText("top_issues", 0, 0, "", ""),
      Fenced(IntentText("bugs_recent", 6, 0, "", "")),
      IntentText("search", 0, 0, "slow", ""),
      IntentText("summary", 0, 0, "", ""),
      IntentText("issue_drilldown", 0, 0, "", "id-1"),
      IntentText("help", 0, 0, "", ""),
      IntentText("delete_all", 0, 0, "", ""),
      << LBrace, Key("intent"), Lit(JStr("search")), RBrace >>,
      << LBrace, Key("intent"), Lit(JStr("issue_drilldown")),
         Key("params"), LBrace, RBrace, RBrace >>,
      << LBrace, Key("params"), LBrace, Key("hours"), Lit(JNum(Rat(6, 1))),
         RBrace, RBrace >>,
      << Lit(JNull) >>,
      << Lit(JNum(Rat(42, 1))) >>,
      << Word, Word >>,
      << LBrace, Key("intent"), Lit(JStr("top_issues")) >>,
      <<Word>> \o IntentText("top_issues", 0, 0, "", "") \o <<Word, LBrace, Word, RBrace>> }

RouterResponses == { AiText(t) : t \in RouterTexts } \cup {AiNoText}

\* texts the model can answer the composer prompt with
ComposerTexts ==
    { << Word, Word >>,
      << LBrace, Key("follow_up_question"), Lit(JStr("Anything else?")) >>,
      << LBrace, Key("follow_up_question"), Lit(JStr("Anything else?")), RBrace >>,
      Fenced(<< LBrace, Key("follow_up_question"), Lit(JStr("Anything else?")), RBrace >>) }

ComposerResponses == { AiText(t) : t \in ComposerTexts } \cup {AiNoText}

ChatSpecBodies == { BodyJson(JObj([text |-> JStr("The login page is too slow")])) }

ChatSpecResponses ==
    { AiText(AnalysisText(Rat(-1, 2), "Bug")), AiText(AnalysisText(Rat(3, 1), "Crash")) }

ChatInit ==
    /\ IdleScorer
    /\ IdleSystem
    /\ variant \in {"markdown", "structured"}
    /\ chat = IdleChat
    /\ page = NoPage

ChatNext ==
    \/ \E req \in ChatRequests : ChatRequest(req)
    \/ \E e \in AiErrors : ChatAiAttemptFails(e)
    \/ ChatBackoffElapsed
    \/ \E resp \in RouterResponses : ChatRouterReturns(resp)
    \/ ChatLookup
    \/ \E resp \in ComposerResponses : ChatComposerReturns(resp)
    \/ \E body \in ChatSpecBodies, r \in RandomIndexes : Ingest(body, r)
    \/ \E k \in 1..MaxInstances, resp \in ChatSpecResponses : WfAiAttemptReturns(k, resp)
    \/ \E k \in 1..MaxInstances : WfCalculateAndStore(k)
    \/ Tick

SpecChat == ChatInit /\ [][ChatNext]_vars

(***************************************************************************)
(* The gravity calculation on its own: the inputs of one calculation, a    *)
(* clock that advances, and the calculation applied at the current time.   *)
(***************************************************************************)
Sentiments == { Rat(n, d) : n \in -MaxSentNum..MaxSentNum, d \in 1..MaxSentDen }

\* analysis.category is whatever string the model wrote
ModelCategories == Categories \cup {"Crash"}

CreatedAts == {NoTime} \cup { k * TickMs : k \in 0..MaxCreatedTicks }

ScoreInit ==
    /\ IdleSystem
    /\ variant = "markdown"
    /\ chat = IdleChat
    /\ page = NoPage
    /\ \E s \in Sentiments, c \in ModelCategories, t \in CreatedAts :
        scorer = [sentiment |-> s, category |-> c, created_at |-> t,
                  now |-> 0, pc |-> "ready", ageHours |-> 0,
                  gravityScore |-> NoScore]

\* time passes before the step runs
ScoreTick ==
    /\ UNCHANGED <<wfVars, chatVars>>
    /\ scorer.now < MaxNowTicks * TickMs
    /\ scorer' = [scorer EXCEPT !.now = @ + TickMs, !.pc = "ready",
                                !.ageHours = 0, !.gravityScore = NoScore]

\* the gravity calculation of calculate-and-store
ScoreCalculate ==
    /\ UNCHANGED <<wfVars, chatVars>>
    /\ scorer.pc = "ready"
    /\ LET created == Created(scorer.created_at, scorer.now)
           ageHours == AgeHours(scorer.now, created)
       IN  scorer' = [scorer EXCEPT
                        !.pc = "scored",
                        !.ageHours = ageHours,
                        !.gravityScore =
                            GravityScore(scorer.sentiment, scorer.category, ageHours)]

ScoreNext == ScoreTick \/ ScoreCalculate

SpecScore == ScoreInit /\ [][ScoreNext]_vars

(***************************************************************************)
(* Properties of the gravity calculation (checked under SpecScore).        *)
(***************************************************************************)
Scored == scorer.pc = "scored"

\* milliseconds between created_at and now (none when created_at is absent)
Elapsed == IF scorer.created_at = NoTime THEN 0 ELSE scorer.now - scorer.created_at

\* h = max(1, floor(elapsed in hours)), stated without computing it
IsRefAge(h) ==
    /\ h >= 1
    /\ Elapsed < 2 * MsPerHour => h = 1
    /\ Elapsed >= MsPerHour => h * MsPerHour <= Elapsed /\ Elapsed < (h + 1) * MsPerHour

\* g = min(50, b rounded to 2 decimals) for b = |s| * 10 / h, doubled iff
\* s < 0 and the category is Bug; stated without computing it: the rounded
\* value is the multiple k/100 with k - 1/2 <= 100 b < k + 1/2
IsRefScore(g, s, c, h) ==
    LET m  == IF s.num < 0 /\ c = "Bug" THEN 2 ELSE 1
        bn == Abs(s.num) * 10 * m
        bd == s.den * h
        k  == (g.num * 100) \div g.den
    IN  \/ /\ k * g.den = g.num * 100
           /\ k <= 100 * ScoreCap
           /\ (2 * k - 1) * bd <= 200 * bn
           /\ 200 * bn < (2 * k + 1) * bd
        \/ /\ REq(g, Rat(ScoreCap, 1))
           /\ 200 * bn >= (200 * ScoreCap - 1) * bd

\* C1: the gravity score the calculate-and-store step computes equals the
\* reference function: age_hours = max(1, floor(hours between created_at and
\* now)), base = |sentiment| * 10 / age_hours, doubled iff sentiment < 0 and
\* category = Bug, score = min(50, base rounded to 2 decimals); (age 1,
\* sentiment -1, Bug) gives 20.0 and (age 100, sentiment 0.5, UX) gives 0.05.
C1_GravityEqualsReference ==
    Scored =>
        /\ IsRefAge(scorer.ageHours)
        /\ IsRefScore(scorer.gravityScore, scorer.sentiment, scorer.category,
                      scorer.ageHours)
        /\ (scorer.ageHours = 1 /\ REq(scorer.sentiment, Rat(-1, 1))
              /\ scorer.category = "Bug")
             => REq(scorer.gravityScore, Rat(20, 1))
        /\ (scorer.ageHours = 100 /\ REq(scorer.sentiment, Rat(1, 2))
              /\ scorer.category = "UX")
             => REq(scorer.gravityScore, Rat(5, 100))

\* the spec's second example has been calculated
C1_Witness ==
    /\ Scored
    /\ scorer.ageHours = 100
    /\ REq(scorer.sentiment, Rat(1, 2))
    /\ scorer.category = "UX"
    /\ scorer.created_at # NoTime

InUnitRange(s) == RLeq(Rat(-1, 1), s) /\ RLeq(s, Rat(1, 1))

\* C2: for a sentiment in [-1, 1], any category and any age_hours >= 1, the
\* computed gravity score is in [0, 50] and is a multiple of 0.01.
C2_ScoreBoundedTwoDecimals ==
    (Scored /\ InUnitRange(scorer.sentiment)) =>
        /\ scorer.ageHours >= 1
        /\ RLeq(Rat(0, 1), scorer.gravityScore)
        /\ RLeq(scorer.gravityScore, Rat(ScoreCap, 1))
        /\ (scorer.gravityScore.num * 100) % scorer.gravityScore.den = 0

\* a sentiment inside the range whose base (10/3/7) is not a multiple of 0.01
C2_Witness ==
    /\ Scored
    /\ REq(scorer.sentiment, Rat(-1, 3))
    /\ scorer.ageHours = 7
    /\ RLt(Rat(0, 1), scorer.gravityScore)

\* the items that are "otherwise identical" to a negative Bug of sentiment s:
\* same |sentiment|, and non-Bug or of non-negative sentiment
Counterparts(s) ==
    { <<s, c>> : c \in ModelCategories \ {"Bug"} }
        \cup { <<Rat(-s.num, s.den), c>> : c \in ModelCategories }

NegativeBug == scorer.sentiment.num < 0 /\ scorer.category = "Bug"

RTimes(k, a) == Rat(k * a.num, a.den)

\* C3 as stated: the score before the cap (the base rounded to 2 decimals) of
\* a negative Bug is exactly twice that of every otherwise identical item.
C3_PreCapExactlyDoubles ==
    (Scored /\ NegativeBug) =>
        \A o \in Counterparts(scorer.sentiment) :
            REq(PreCap(scorer.sentiment, scorer.category, scorer.ageHours),
                RTimes(2, PreCap(o[1], o[2], scorer.ageHours)))

\* C3 amended: the unrounded base of a negative Bug is exactly twice that of
\* every otherwise identical item, and the rounded score before the cap is
\* within 0.01 of twice the other's.
C3_BaseExactlyDoubles ==
    (Scored /\ NegativeBug) =>
        \A o \in Counterparts(scorer.sentiment) :
            LET mine   == PreCap(scorer.sentiment, scorer.category, scorer.ageHours)
                theirs == RTimes(2, PreCap(o[1], o[2], scorer.ageHours))
            IN  /\ REq(Base(scorer.sentiment, scorer.category, scorer.ageHours),
                       RTimes(2, Base(o[1], o[2], scorer.ageHours)))
                /\ RLeq(mine, Rat(theirs.num + 1, 100))
                /\ RLeq(theirs, Rat(mine.num + 1, 100))

\* a negative Bug whose doubled base rounds differently from twice the
\* rounded single base (sentiment -0.5 at age 3: 3.33 against 2 * 1.67)
C3_Witness ==
    /\ Scored
    /\ NegativeBug
    /\ REq(scorer.sentiment, Rat(-1, 2))
    /\ scorer.ageHours = 3

MaxAgeHours == (MaxNowTicks * TickMs) \div MsPerHour

\* C4: for fixed sentiment and category the gravity score is non-increasing
\* in age_hours: every age b >= a scores no more than the score at a.
C4_MonotoneInAge ==
    Scored =>
        \A b \in scorer.ageHours..MaxAgeHours :
            RLeq(GravityScore(scorer.sentiment, scorer.category, b),
                 scorer.gravityScore)

\* an item old enough that its score has strictly decayed below that of age 1
C4_Witness ==
    /\ Scored
    /\ scorer.ageHours = 3
    /\ RLt(scorer.gravityScore,
           GravityScore(scorer.sentiment, scorer.category, 1))

(***************************************************************************)
(* Properties of the enrichment workflow (checked under Spec).             *)
(***************************************************************************)
Instances == 1..Len(wf)

\* the ai-enrichment step of instance k has received the model's response
Answered(k) == wf[k].response # NoResponse

\* extraction or parsing of the response fails: there is no text, or what is
\* handed to JSON.parse (the {...} substring, else the text) is not one JSON
\* value
ParseFails(resp) ==
    \/ resp.kind # "text"
    \/ LET r == ParseValue(RegexExtract(resp.response), 1)
       IN  ~r.ok \/ r.next # Len(RegexExtract(resp.response)) + 1

\* C5: whenever extracting or parsing the model's text fails in ai-enrichment,
\* the step does not throw and returns exactly the fallback record
\* {sentiment: 0, category: "Other", explanation: "Failed to analyze"}.
C5_ParseFailureGivesFallback ==
    \A k \in Instances :
        (Answered(k) /\ ParseFails(wf[k].response)) =>
            /\ wf[k].pc \in {"calculate-and-store", "complete"}
            /\ wf[k].error = "none"
            /\ wf[k].analysis.kind = "object"
            /\ DOMAIN wf[k].analysis.f = {"sentiment", "category", "explanation"}
            /\ wf[k].analysis.f["sentiment"] = JNum(Rat(0, 1))
            /\ wf[k].analysis.f["category"] = JStr("Other")
            /\ wf[k].analysis.f["explanation"] = JStr("Failed to analyze")

\* the greedy match spans two objects, the span is not JSON, and the step has
\* returned
C5_Witness ==
    \E k \in Instances :
        /\ Answered(k)
        /\ wf[k].response.kind = "text"
        /\ Cardinality(Indexes(wf[k].response.response, "{")) = 2
        /\ ParseFails(wf[k].response)
        /\ wf[k].pc = "complete"

\* C6: no text the model returns blocks or rejects a submission: when the
\* model call and the store itself do not fail, both steps complete and the
\* record is inserted, so an instance never ends errored for any other reason
\* than the model call failing on every attempt.
C6_NoOutputBlocksSubmission ==
    \A k \in Instances :
        wf[k].pc = "errored" => wf[k].error \in AiErrors

(***************************************************************************)
(* Properties of POST /chat (checked under SpecChat).                      *)
(***************************************************************************)
\* the router call of the request being handled has returned
Routed == chat.routerResponse # NoResponse

\* C7: when the router model's text cannot be parsed as JSON, the intent
\* used for the rest of the request is "help" with params {hours: 0, days: 0,
\* term: "", id: ""}, and the request continues to a normal response: no
\* lookup is made, the composer is called, and the response is 200 unless
\* the composer call itself fails on every attempt.
C7_UnparsableRouterTextIsHelp ==
    (Routed /\ ParseFails(chat.routerResponse)) =>
        /\ chat.intentData.kind = "object"
        /\ DOMAIN chat.intentData.f = {"intent", "params"}
        /\ chat.intentData.f["intent"] = JStr("help")
        /\ chat.intentData.f["params"] =
              JObj([hours |-> JNum(Rat(0, 1)), days |-> JNum(Rat(0, 1)),
                    term |-> JStr(""), id |-> JStr("")])
        /\ chat.pending = NoQuery /\ chat.lookups = 0
        /\ chat.pc \in {"composer", "composer-backoff", "responded"}
        /\ chat.pc = "responded" =>
              \/ chat.status = 200 /\ chat.composerResponse # NoResponse
              \/ chat.status = 500 /\ chat.error \in AiErrors

\* an unparsable router text (prose around two brace groups) was answered 200
C7_Witness ==
    /\ Routed
    /\ chat.routerResponse.kind = "text"
    /\ Cardinality(Indexes(chat.routerResponse.response, "{")) > 2
    /\ ParseFails(chat.routerResponse)
    /\ chat.pc = "responded"
    /\ chat.status = 200

\* a JSON value of the shape the router prompt asks for
WellShapedIntent(v) ==
    /\ v.kind = "object"
    /\ {"intent", "params"} \subseteq DOMAIN v.f
    /\ v.f["intent"] \in { JStr(n) : n \in Intents }
    /\ v.f["params"].kind = "object"
    /\ {"hours", "days", "term", "id"} \subseteq DOMAIN v.f["params"].f

\* C8: the intent router is total: the intent POST /chat acts on is always
\* one of the six enumerated intents, and a router output that parses as JSON
\* but names no enumerated intent or lacks a required key resolves to help
\* with all-zero/empty params, like a parse failure.
C8_RouterTotal ==
    Routed =>
        /\ Prop(chat.intentData, "intent") \in { JStr(n) : n \in Intents }
        /\ ~WellShapedIntent(chat.intentData) => chat.intentData = DefaultIntent
        /\ chat.error \notin {"TypeError", "D1_TYPE_ERROR"}

\* the model call (router or composer) of the request failed on every attempt
ModelCallsExhausted == chat.pc = "responded" /\ chat.error \in AiErrors

ErrorSummary(details) ==
    JObj([summary |-> JObj([headline |-> JStr("System Error"),
                            details |-> JStr(details),
                            stats |-> EmptyArray]),
          top_issues |-> EmptyArray, patterns |-> EmptyArray,
          follow_up_question |-> JStr("Please try again later.")])

\* C9: when the model calls fail on every attempt (router or composer
\* exhausts its retries), POST /chat returns a response whose body is the fixed
\* error-summary payload.
C9_ErrorSummaryOnModelFailure ==
    ModelCallsExhausted => chat.body = ErrorSummary(chat.error)

\* the request being handled passed the gate and has no usable query: its
\* body is not JSON, or is JSON without a query field
QueryMissing ==
    /\ chat.pc # "idle"
    /\ chat.status # 401
    /\ \/ chat.request.body.kind = "invalid"
       \/ Prop(chat.request.body.v, "query") = JUndefined

\* C10: a POST /chat request whose query is missing or invalid is handled
\* with the intent defaulted to help: no store lookup is issued and the
\* request does not end in a server error.
C10_MissingQueryIsHelp ==
    QueryMissing =>
        /\ chat.status # 500
        /\ chat.pending = NoQuery /\ chat.lookups = 0
        /\ Routed => Prop(chat.intentData, "intent") = JStr("help")

(***************************************************************************)
(* Properties of POST /ingest and of runAIWithRetry (checked under Spec).  *)
(***************************************************************************)
\* C11: each POST /ingest request creates exactly one workflow instance and
\* returns {ok: true, started: true} after that creation without waiting for
\* a workflow step: the step that returns the acknowledgement appends exactly
\* one instance, which stands at the start of ai-enrichment, leaves the
\* instances already there alone and inserts nothing in the table; every
\* acknowledgement has its instance.
C11_AckAfterCreateOnly ==
    /\ [](Len(ingested) = Len(wf))
    /\ [][ingested' # ingested =>
            /\ Len(ingested') = Len(ingested) + 1
            /\ SubSeq(ingested', 1, Len(ingested)) = ingested
            /\ ingested'[Len(ingested')].response = IngestAck
            /\ Len(wf') = Len(wf) + 1
            /\ SubSeq(wf', 1, Len(wf)) = wf
            /\ wf'[Len(wf')].pc = "ai-enrichment"
            /\ wf'[Len(wf')].i = 0
            /\ feedback' = feedback]_vars

\* the acknowledgement has been returned and the item is not in the store:
\* its instance has not finished its first step
C11_Witness ==
    /\ Len(ingested) = 1
    /\ ingested[1].response = IngestAck
    /\ wf[1].pc = "ai-enrichment"
    /\ wf[1].response = NoResponse
    /\ feedback = {}

\* SpecIngest: POST /ingest on its own, under every request body and every
\* value of Math.random()
IngestNext == \E body \in IngestBodies, r \in 1..Len(MESSY_SAMPLES) : Ingest(body, r)

SpecIngest == Init /\ [][IngestNext]_vars

\* the body is JSON with a non-empty text / a non-empty source
TextPresent(body) ==
    /\ body.kind = "json"
    /\ body.v.kind = "object"
    /\ "text" \in DOMAIN body.v.f
    /\ body.v.f["text"] # JStr("")

SourcePresent(body) ==
    /\ "source" \in DOMAIN body.v.f
    /\ body.v.f["source"] # JStr("")

\* C12: POST /ingest never rejects a request for its body: every request is
\* acknowledged and has its job; with text present the job has content = text
\* and source = the supplied source, or "api" when source is absent or empty;
\* with text absent or empty, or a body that is not JSON, the job has content
\* = one of the 12 canned samples and source = "random-generator".
C12_IngestDefaults ==
    /\ Len(ingested) = Len(wf)
    /\ \A k \in 1..Len(ingested) :
        LET body == ingested[k].request
        IN  /\ ingested[k].response = IngestAck
            /\ TextPresent(body) =>
                  /\ JStr(wf[k].content) = body.v.f["text"]
                  /\ IF SourcePresent(body)
                        THEN JStr(wf[k].source) = body.v.f["source"]
                        ELSE wf[k].source = "api"
            /\ ~TextPresent(body) =>
                  /\ \E n \in 1..12 : wf[k].content = MESSY_SAMPLES[n]
                  /\ wf[k].source = "random-generator"

\* a request with text and an empty source became a job with source "api",
\* and a request with a source but an empty text became a job with the last
\* canned sample
C12_Witness ==
    /\ Len(ingested) = 2
    /\ TextPresent(ingested[1].request)
    /\ Prop(ingested[1].request.v, "source") = JStr("")
    /\ wf[1].source = "api"
    /\ Prop(ingested[2].request.v, "text") = JStr("")
    /\ Prop(ingested[2].request.v, "source") = JStr("curl_test")
    /\ wf[2].content = MESSY_SAMPLES[12]
    /\ wf[2].source = "random-generator"

(***************************************************************************)
(* Properties of runAIWithRetry, as POST /chat runs it for the router and  *)
(* for the composer (checked under SpecChat).                              *)
(***************************************************************************)
\* an invocation of runAIWithRetry is running: an attempt is about to be
\* made, or the wait after a failed one is on
RouterCallRunning == chat.pc \in {"router", "router-backoff"}

ComposerCallRunning == chat.pc \in {"composer", "composer-backoff"}

\* C13: runAIWithRetry calls the model at most 3 times per invocation, one
\* attempt at a time; it stops at the first attempt that succeeds and returns
\* that attempt's result: while an invocation runs no result has come back
\* and every call so far has failed, and once a result has come back the
\* invocation makes no further call.
C13_AtMostThreeAttempts ==
    /\ [](chat.calls <= 3)
    /\ [](RouterCallRunning => /\ chat.routerResponse = NoResponse
                               /\ chat.calls = Len(chat.failed))
    /\ [](ComposerCallRunning => /\ chat.composerResponse = NoResponse
                                 /\ chat.calls = Len(chat.failed))
    /\ [][chat'.calls \in {chat.calls, chat.calls + 1, 0}]_vars
    /\ [][(RouterCallRunning /\ chat'.routerResponse # NoResponse) =>
            /\ chat'.routerResponse \in RouterResponses
            /\ chat'.intentData = IntentData(chat'.routerResponse)
            /\ ~RouterCallRunning']_vars
    /\ [][(~RouterCallRunning /\ ~ComposerCallRunning) =>
            chat'.calls \in {chat.calls, 0}]_vars

\* the router call failed twice and succeeded at the third attempt; the
\* handler is at the lookup with the result, three calls made
C13_Witness ==
    /\ chat.pc = "lookup"
    /\ chat.calls = 3
    /\ chat.routerResponse \in RouterResponses
    /\ chat.intentData = IntentData(chat.routerResponse)

\* C14: when all 3 attempts of runAIWithRetry fail, the failure of the third
\* attempt is propagated to the caller; a failure is never swallowed (the
\* caller goes on only with the result of a successful attempt), and every
\* kind of failure is retried the same way (the wait depends only on the
\* number of the attempt).
C14_FinalFailurePropagated ==
    /\ ModelCallsExhausted =>
          /\ chat.calls = 3
          /\ Len(chat.failed) = 3
          /\ chat.error = chat.failed[3]
          /\ chat.status = 500
    /\ chat.pc \in {"lookup", "composer", "composer-backoff"} =>
          chat.routerResponse \in RouterResponses
    /\ (chat.pc = "responded" /\ chat.status = 200) =>
          /\ chat.routerResponse \in RouterResponses
          /\ chat.composerResponse \in ComposerResponses
    /\ chat.pc \in {"router-backoff", "composer-backoff"} =>
          /\ Len(chat.failed) \in 1..2
          /\ chat.wait = 1000 * Len(chat.failed)
    /\ (Len(chat.failed) > 0 /\ Len(chat.failed) < 3) =>
          chat.pc \in {"router-backoff", "composer-backoff", "router", "composer"}

\* the composer call failed three times, the last time with a failure of
\* another kind than before, and the last one is what the handler caught
C14_Witness ==
    /\ ModelCallsExhausted
    /\ chat.routerResponse \in RouterResponses
    /\ chat.failed = << "AiTimeout", "AiTimeout", "AiError" >>
    /\ chat.error = "AiError"

(***************************************************************************)
(* SpecQuery: the lookups of POST /chat over a table the pipeline has      *)
(* filled before: requests that pass the gate, router answers that name an *)
(* intent with its params, no failing model call.                          *)
(***************************************************************************)
\* the instant the requests start at
QueryEpoch == 400 * TickMs

\* what the enrichment model answered for the stored items, in rotation
SentimentCycle == << Rat(-1, 1), Rat(1, 2), Rat(-1, 2), Rat(0, 1), Rat(1, 1) >>

CategoryCycle == << "Bug", "UX", "Bug", "Feature", "Other", "Bug" >>

\* items 30 and 31 were submitted at the same instant and analysed alike
Slot(k) == IF k = 31 THEN 30 ELSE k

\* how long before QueryEpoch item k was submitted: one item every half
\* hour (item 4 at the same instant as item 3), and the last two items more
\* than a week before
SubmittedBefore(k) ==
    LET j == IF k = 4 THEN 3 ELSE Slot(k)
    IN  (IF j > MaxRows - 2 THEN 340 + j ELSE j) * TickMs

\* the row calculate-and-store has inserted for item k
StoredRow(k) ==
    LET j == Slot(k)
        sentiment == SentimentCycle[(j % 5) + 1]
        category == CategoryCycle[(j % 6) + 1]
    IN  [id |-> "id-" \o ToString(k),
         content |-> MESSY_SAMPLES[(k % 12) + 1],
         source |-> "random-generator",
         sentiment |-> JNum(sentiment),
         gravity_score |-> GravityScore(sentiment, category, 1 + (j % 3)),
         category |-> JStr(category),
         explanation |-> JStr("One sentence."),
         created_at |-> QueryEpoch - SubmittedBefore(k)]

StoredTable(n) == { StoredRow(k) : k \in 1..n }

TableSizes == {0, 2, 11, MaxRows}

QueryRequests ==
    { [host |-> PublicHost, email |-> UserEmail,
       body |-> BodyJson(JObj([query |-> JStr("Show me the top issues")]))] }

\* { "intent": ..., "params": {} }
IntentNoParams(intent) ==
    << LBrace, Key("intent"), Lit(JStr(intent)), Key("params"), LBrace, RBrace, RBrace >>

QueryRouterTexts ==
    { IntentText("top_issues", 0, 0, "", ""),
      IntentText("bugs_recent", 0, 0, "", ""),
      IntentText("bugs_recent", 1, 0, "", ""),
      IntentText("bugs_recent", 6, 0, "", ""),
      IntentNoParams("bugs_recent"),
      IntentText("search", 0, 0, "", ""),
      IntentText("search", 0, 0, "broken", ""),
      IntentText("search", 0, 0, "LOGIN", ""),
      IntentText("search", 0, 0, "%", ""),
      IntentText("search", 0, 0, "5_0", ""),
      IntentText("summary", 0, 0, "", ""),
      IntentText("summary", 0, 1, "", ""),
      IntentNoParams("summary"),
      IntentText("issue_drilldown", 0, 0, "", "id-1"),
      IntentText("help", 0, 0, "", "") }

QueryInit ==
    /\ IdleScorer
    /\ now = QueryEpoch
    /\ wf = << >>
    /\ ingested = << >>
    /\ \E n \in TableSizes : feedback = StoredTable(n) /\ uuids = n
    /\ variant = "markdown"
    /\ chat = IdleChat
    /\ page = NoPage

QueryTick ==
    /\ now < QueryEpoch + MaxClockTicks * ClockStepMs
    /\ now' = now + ClockStepMs
    /\ UNCHANGED <<scorer, variant, chat, page, wf, feedback, uuids, ingested>>

QueryNext ==
    \/ \E req \in QueryRequests : ChatRequest(req)
    \/ \E t \in QueryRouterTexts : ChatRouterReturns(AiText(t))
    \/ ChatLookup
    \/ ChatComposerReturns(AiText(<< Word, Word >>))
    \/ QueryTick

SpecQuery == QueryInit /\ [][QueryNext]_vars

(***************************************************************************)
(* Properties of the lookups (checked under SpecQuery).                    *)
(***************************************************************************)
\* the intent the request in hand was routed to, and one of its params
IntentIs(c, name) == Prop(c.intentData, "intent") = JStr(name)

Param(c, key) == Prop(Prop(c.intentData, "params"), key)

\* the step on which the handler prepares the lookup of the intent, and the
\* step on which the lookup returns its rows
Prepares(name) == chat.pc = "router" /\ chat'.pc = "lookup" /\ IntentIs(chat', name)

Returns(name) == chat.pc = "lookup" /\ chat'.pc = "composer" /\ IntentIs(chat, name)

\* the whole number in a param, or the default when it is 0 or missing
WholeOr(v, default) ==
    IF v.kind = "number" /\ v.r.num # 0 THEN v.r.num \div v.r.den ELSE default

\* a has the higher gravity_score, or the same and the later created_at
Outranks(a, b) ==
    \/ a.gravity_score.num * b.gravity_score.den > b.gravity_score.num * a.gravity_score.den
    \/ /\ a.gravity_score.num * b.gravity_score.den = b.gravity_score.num * a.gravity_score.den
       /\ a.created_at > b.created_at

Newer(a, b) == a.created_at > b.created_at

Precedes(order, a, b) == IF order = "gravity" THEN Outranks(a, b) ELSE Newer(a, b)

\* rows is a result for the items of matching: only such items, none twice,
\* in the order, as many as there are up to the cap, and none left out that
\* precedes a returned one
IsResult(rows, matching, order, cap) ==
    /\ Len(rows) = (IF Cardinality(matching) < cap THEN Cardinality(matching) ELSE cap)
    /\ \A m \in 1..Len(rows) : rows[m] \in matching
    /\ \A m, n \in 1..Len(rows) : m < n =>
          /\ rows[m] # rows[n]
          /\ ~Precedes(order, rows[n], rows[m])
    /\ \A x \in matching : (\A m \in 1..Len(rows) : rows[m] # x) =>
          \A m \in 1..Len(rows) : ~Precedes(order, x, rows[m])

RecentBugs(cutoff) ==
    { row \in feedback : row.category = JStr("Bug") /\ row.created_at >= cutoff }

\* C15: for intent bugs_recent with params.hours = h the lookup is prepared
\* for the instant now - h hours (24 hours when hours is 0 or missing) and
\* returns only items with category Bug created at or after that instant,
\* by gravity_score descending then created_at descending, at most 10, and
\* leaves out no matching item that outranks a returned one.
C15_BugsRecent ==
    /\ [][Prepares("bugs_recent") =>
            chat'.pending.date = now - WholeOr(Param(chat', "hours"), 24) * MsPerHour]_vars
    /\ [][Returns("bugs_recent") =>
            IsResult(chat'.results, RecentBugs(chat.pending.date), "gravity", 10)]_vars

\* a bugs_recent lookup with hours missing has returned 10 items out of more
\* Bug items of the last 24 hours, with a Bug item older than that in the
\* table
C15_Witness ==
    /\ chat.pc = "composer"
    /\ IntentIs(chat, "bugs_recent")
    /\ Param(chat, "hours") = JUndefined
    /\ chat.pending.date = QueryEpoch - 24 * MsPerHour
    /\ Len(chat.results) = 10
    /\ Cardinality(RecentBugs(chat.pending.date)) > 10
    /\ \E row \in feedback : row.category = JStr("Bug") /\ row.created_at < chat.pending.date
    /\ \E row \in feedback : row.category # JStr("Bug") /\ row.created_at >= chat.pending.date

\* C16: for intent top_issues the lookup applies no filter and returns the
\* first 10 (or all, if fewer) persisted items by gravity_score descending
\* then created_at descending, so an item ranking within the top 10 is
\* always included.
C16_TopIssues ==
    [][Returns("top_issues") => IsResult(chat'.results, feedback, "gravity", 10)]_vars

\* a top_issues lookup over the largest table has returned 10 items, led by
\* the two items that tie on both keys, the one stored second first
C16_Witness ==
    /\ chat.pc = "composer"
    /\ IntentIs(chat, "top_issues")
    /\ Cardinality(feedback) = MaxRows
    /\ Len(chat.results) = 10
    /\ chat.results[1].id = "id-31"
    /\ chat.results[2].id = "id-30"
    /\ chat.results[1].gravity_score = chat.results[2].gravity_score
    /\ chat.results[1].created_at = chat.results[2].created_at
    /\ \E m \in 1..9 :
          /\ chat.results[m].gravity_score = chat.results[m + 1].gravity_score
          /\ chat.results[m].created_at > chat.results[m + 1].created_at

\* the characters of a string with the ASCII letters in lower case
Lowered(chars) == [n \in 1..Len(chars) |-> Fold(chars[n])]

\* text contains term as a substring, up to the case of letters
ContainsFolded(text, term) ==
    \E n \in 0..(Len(text) - Len(term)) :
        SubSeq(Lowered(text), n + 1, n + Len(term)) = Lowered(term)

Containing(term) ==
    { row \in feedback : ContainsFolded(CharsOf(row.content), CharsOf(term)) }

\* C17: for intent search with params.term = t the lookup returns only items
\* whose content contains t as a case-insensitive substring, for every t
\* (the empty string and terms with % or _ included), by gravity_score
\* descending then created_at descending, at most 10.
C17_SearchContains ==
    [][(Returns("search") /\ Param(chat, "term").kind = "string") =>
         IsResult(chat'.results, Containing(Param(chat, "term").s), "gravity", 10)]_vars

SinceCutoff(cutoff) == { row \in feedback : row.created_at >= cutoff }

\* C18: for intent summary with params.days = d the lookup is prepared for
\* the instant now - d days (7 days when days is 0 or missing) and returns
\* only items created at or after that instant, by created_at descending
\* only, at most 50.
C18_Summary ==
    /\ [][Prepares("summary") =>
            chat'.pending.date = now - WholeOr(Param(chat', "days"), 7) * 24 * MsPerHour]_vars
    /\ [][Returns("summary") =>
            IsResult(chat'.results, SinceCutoff(chat.pending.date), "created", 50)]_vars

\* a summary lookup with days 0 has returned 50 items out of more items of
\* the last 7 days, an older item is in the table, and an item with the
\* lower gravity_score comes before one with the higher that was created at
\* the same instant
C18_Witness ==
    /\ chat.pc = "composer"
    /\ IntentIs(chat, "summary")
    /\ Param(chat, "days") = JNum(Rat(0, 1))
    /\ chat.pending.date = QueryEpoch - 7 * 24 * MsPerHour
    /\ Len(chat.results) = 50
    /\ Cardinality(SinceCutoff(chat.pending.date)) > 50
    /\ \E row \in feedback : row.created_at < chat.pending.date
    /\ \E m \in 1..49 :
          /\ chat.results[m].created_at = chat.results[m + 1].created_at
          /\ RLt(chat.results[m].gravity_score, chat.results[m + 1].gravity_score)

(***************************************************************************)
(* Properties of the structured answer (checked under SpecChat).           *)
(***************************************************************************)
\* the composer call has returned and its output cannot be parsed as JSON:
\* there is no text, or what is left of the text once the fence markers are
\* dropped and it is cut from its first { to its last } is not a JSON value
ComposerUnparsable ==
    /\ chat.composerResponse # NoResponse
    /\ \/ chat.composerResponse.kind # "text"
       \/ ~JsonParse(BraceSpan(FenceStrip(chat.composerResponse.response))).ok

\* C19: in the structured-answer variant, when the composer's output cannot
\* be parsed as JSON the handler returns, with status 200 and without
\* throwing, the placeholder {summary: {headline: "Error analyzing data",
\* details: "The AI returned an invalid format.", stats: []}, top_issues: [],
\* patterns: [], follow_up_question: "Try a simpler query."}.
C19_UnparsableAnswerIsPlaceholder ==
    (variant = "structured" /\ ComposerUnparsable) =>
        /\ chat.pc = "responded"
        /\ chat.status = 200
        /\ chat.error = "none"
        /\ chat.body =
              [kind |-> "object",
               f |-> [summary |->
                        [kind |-> "object",
                         f |-> [headline |-> [kind |-> "string", s |-> "Error analyzing data"],
                                details |-> [kind |-> "string",
                                             s |-> "The AI returned an invalid format."],
                                stats |-> [kind |-> "array", a |-> << >>]]],
                      top_issues |-> [kind |-> "array", a |-> << >>],
                      patterns |-> [kind |-> "array", a |-> << >>],
                      follow_up_question |-> [kind |-> "string", s |-> "Try a simpler query."]]]

\* the composer answered a lookup's rows with a JSON text cut short before
\* its closing brace, in the structured-answer variant
C19_Witness ==
    /\ variant = "structured"
    /\ ComposerUnparsable
    /\ chat.lookups = 1
    /\ chat.composerResponse.kind = "text"
    /\ Len(chat.composerResponse.response) = 3
    /\ chat.composerResponse.response[1] = LBrace
    /\ chat.status = 200

(***************************************************************************)
(* Properties of the stored records (checked under Spec).                  *)
(***************************************************************************)
\* C20: every persisted feedback record has category in {Bug, UX, Feature,
\* Other} and sentiment in [-1, 1], whatever JSON the enrichment model
\* returned.
C20_StoredAnalysisInRange ==
    \A row \in feedback :
        /\ row.category \in { JStr(c) : c \in {"Bug", "UX", "Feature", "Other"} }
        /\ row.sentiment.kind = "number"
        /\ InUnitRange(row.sentiment.r)

(***************************************************************************)
(* SpecAtLeastOnce: the pipeline under a step executor that can lose the   *)
(* outcome of a step after the step's INSERT is committed, and then runs   *)
(* the step again.                                                         *)
(***************************************************************************)
\* calculate-and-store inserts its row and the execution of the step fails
\* afterwards: the executor runs the step again, or gives up
WfStoreResultLost(k) ==
    /\ k \in 1..Len(wf)
    /\ wf[k].pc = "calculate-and-store"
    /\ StoreError(wf[k].analysis) = "none"
    /\ uuids' = uuids + 1
    /\ feedback' = feedback \cup
          { Row(UuidPool[uuids + 1], wf[k], Created(wf[k].created_at, now)) }
    /\ wf' = [wf EXCEPT ![k] = StepFailed(wf[k], "ResultLost")]
    /\ UNCHANGED <<scorer, variant, chat, page, now, ingested>>

AtLeastOnceNext ==
    \/ Next
    \/ \E k \in 1..MaxInstances : WfStoreResultLost(k)

SpecAtLeastOnce == Init /\ [][AtLeastOnceNext]_vars

\* C21: each submission is persisted once under an at-least-once step
\* executor: every created workflow instance results in at most one feedback
\* record, so the table never holds more records than instances were
\* created, and all persisted ids are distinct.
C21_PersistedOnce ==
    /\ Cardinality(feedback) <= Len(wf)
    /\ \A a, b \in feedback : a.id = b.id => a = b

(***************************************************************************)
(* SpecWorker: every route of the worker together (POST /ingest, GET /app, *)
(* GET /dashboard, POST /chat) in either source, with the workflow and a   *)
(* clock that moves far enough for a stored row to age.                    *)
(***************************************************************************)
WorkerTick ==
    /\ now < MaxClockTicks * 4 * TickMs
    /\ now' = now + 4 * TickMs
    /\ UNCHANGED <<scorer, variant, chat, page, wf, feedback, uuids, ingested>>

\* the host and the Access header of the requests made
WorkerRequests == [host : {"localhost", PublicHost}, email : {NoHeader, UserEmail}]

WorkerNext ==
    \/ \E body \in ChatSpecBodies, r \in RandomIndexes : Ingest(body, r)
    \/ \E k \in 1..MaxInstances, resp \in ChatSpecResponses : WfAiAttemptReturns(k, resp)
    \/ \E k \in 1..MaxInstances : WfCalculateAndStore(k)
    \/ \E req \in WorkerRequests : GetApp(req)
    \/ \E req \in WorkerRequests : GetDashboard(req)
    \/ \E req \in WorkerRequests :
          ChatRequest([host |-> req.host, email |-> req.email,
                       body |-> BodyJson(JObj([query |-> JStr("Show me the top issues")]))])
    \/ \E intent \in {"top_issues", "help"} :
          ChatRouterReturns(AiText(IntentText(intent, 0, 0, "", "")))
    \/ ChatLookup
    \/ ChatComposerReturns(AiText(<< Word, Word >>))
    \/ WorkerTick

SpecWorker == ChatInit /\ [][WorkerNext]_vars

\* the score the row would get if it were computed again at the present time
Recomputed(row) ==
    GravityScore(SentimentNumber(row.sentiment), CategoryString(row.category),
                 AgeHours(now, row.created_at))

Anonymous(req) == req.host \notin LocalHosts /\ req.email = NoHeader

\* the view request answered last got 401 and no row was read for it
ViewRefused == page.status = 401 /\ page.items = << >>

\* the chat request got 401 with no model call and no lookup made
ChatRefused ==
    /\ chat.pc = "responded" /\ chat.status = 401
    /\ chat.calls = 0 /\ chat.lookups = 0
    /\ chat.routerResponse = NoResponse /\ chat.results = << >>

\* what C24 says of the requests answered so far
AnonymousRefused ==
    /\ page.route # "none" /\ Anonymous(page.request) => ViewRefused
    /\ chat.pc # "idle" /\ Anonymous(chat.request) => ChatRefused
    /\ \A n \in 1..Len(ingested) : ingested[n].response = IngestAck

\* C24: in the worker of src/feedback-copilot/src/index.ts a GET /app,
\* GET /dashboard or POST /chat request without the Access header and from a
\* host that is not local is answered 401 before any read of the table and
\* any model call; POST /ingest answers every request with its
\* acknowledgement, never 401
C24_AnonymousRefused == variant = "markdown" => AnonymousRefused

\* the same of src/unnamed/part_001, where the calls of requireAuth are
\* commented out (violated: that source serves anonymous requests)
C24_AnonymousRefusedInEverySource == AnonymousRefused

\* the gate has refused an anonymous view request and an anonymous chat
\* request while the table holds a row
C24_Witness ==
    /\ variant = "markdown" /\ feedback # {}
    /\ page.route # "none" /\ Anonymous(page.request) /\ ViewRefused
    /\ Anonymous(chat.request) /\ ChatRefused
    /\ Len(ingested) > 0

(***************************************************************************)
(* SpecJobs: the workflow over jobs created by POST /ingest and jobs       *)
(* created with a payload that has no created_at (FeedbackEvent declares   *)
(* the field optional).                                                    *)
(***************************************************************************)
\* an instance is created with the payload
WorkflowCreate(payload) ==
    /\ Len(wf) < MaxInstances
    /\ wf' = Append(wf, NewInstance(payload.content, payload.source, payload.created_at))
    /\ UNCHANGED <<scorer, variant, chat, page, now, feedback, uuids, ingested>>

JobsNext ==
    \/ \E body \in PipelineBodies, r \in RandomIndexes : Ingest(body, r)
    \/ \E t \in CreatedAts :
          WorkflowCreate([content |-> "checkout page crashes", source |-> "import",
                          created_at |-> t])
    \/ \E k \in 1..MaxInstances, resp \in ChatSpecResponses : WfAiAttemptReturns(k, resp)
    \/ \E k \in 1..MaxInstances : WfCalculateAndStore(k)
    \/ Tick

SpecJobs == Init /\ [][JobsNext]_vars

\* the step is the INSERT of instance k
Inserts(k) ==
    /\ k \in 1..Len(wf)
    /\ wf[k].pc = "calculate-and-store"
    /\ wf'[k].pc = "complete"

\* C23: the job POST /ingest creates carries the ingest time as created_at;
\* a job keeps its content, source and created_at for its whole life; and
\* the INSERT of a job adds one row whose content and source are the job's
\* and whose created_at is the job's created_at when the job has one, and
\* the time the calculate-and-store step runs otherwise
C23_RowCarriesJob ==
    [][ /\ Len(ingested') > Len(ingested) =>
              wf'[Len(wf')].created_at = now
        /\ \A k \in 1..Len(wf) :
              /\ wf'[k].content = wf[k].content
              /\ wf'[k].source = wf[k].source
              /\ wf'[k].created_at = wf[k].created_at
        /\ \A k \in 1..Len(wf) : Inserts(k) =>
              \E row \in feedback' \ feedback :
                 /\ feedback' = feedback \cup {row}
                 /\ row.content = wf[k].content
                 /\ row.source = wf[k].source
                 /\ row.created_at =
                       IF wf[k].created_at # NoTime THEN wf[k].created_at ELSE now ]_vars

\* a job of POST /ingest stored after the clock moved, with the ingest time
\* as created_at, and a job without created_at stored with the step time
C23_Witness ==
    /\ now > 0
    /\ \E k \in 1..Len(wf), row \in feedback :
          /\ wf[k].pc = "complete" /\ wf[k].created_at = 0
          /\ row.content = wf[k].content /\ row.source = "curl_test"
          /\ row.created_at = 0
    /\ \E k \in 1..Len(wf), row \in feedback :
          /\ wf[k].pc = "complete" /\ wf[k].created_at = NoTime
          /\ row.content = wf[k].content /\ row.source = "import"
          /\ row.created_at = now

\* C25 (README): the score of every item classified Bug, whatever the sign
\* of its sentiment, is twice the score of an item of the same |sentiment|
\* and age_hours with a category other than Bug.
C25_EveryBugDoubles ==
    (Scored /\ scorer.category = "Bug") =>
        \A c \in ModelCategories \ {"Bug"} :
            \A s \in {scorer.sentiment, Rat(-scorer.sentiment.num, scorer.sentiment.den)} :
                REq(scorer.gravityScore,
                    RTimes(2, GravityScore(s, c, scorer.ageHours)))

\* the same for Bugs of positive sentiment alone, one hour old and far from
\* the cap, where neither rounding nor the cap plays a part
C25_PositiveBugDoubles ==
    (Scored /\ scorer.category = "Bug" /\ scorer.ageHours = 1
       /\ REq(scorer.sentiment, Rat(1, 2))) =>
        REq(scorer.gravityScore, RTimes(2, GravityScore(scorer.sentiment, "UX", 1)))

(***************************************************************************)
(* SpecExtract: the three extractions (enrichment, intent routing, the     *)
(* structured answer) applied to model texts that are a JSON object in     *)
(* Markdown fences, with or without prose around.                          *)
(***************************************************************************)
\* JSON objects as the model writes them
NestedAnswer ==
    << LBrace, Key("summary"), LBrace, Key("headline"), Lit(JStr("2 bugs")), RBrace,
       Key("follow_up_question"), Lit(JStr("Run [fence]wrangler tail[fence] to see it")),
       RBrace >>

ExtractObjects ==
    { AnalysisText(Rat(-1, 2), "Bug"),
      IntentText("bugs_recent", 6, 0, "", ""),
      << LBrace, RBrace >>,
      << LBrace, Key("follow_up_question"), Lit(JStr("Anything else?")), RBrace >>,
      NestedAnswer }

\* prose without braces
Proses == { << >>, << Word >> }

\* the object in fences, with or without prose before and after
FencedTexts(objects) ==
    { pre \o Fenced(obj) \o post : obj \in objects, pre \in Proses, post \in Proses }

ExtractNext ==
    \/ \E body \in ChatSpecBodies, r \in RandomIndexes : Ingest(body, r)
    \/ \E k \in 1..MaxInstances,
          t \in FencedTexts({ AnalysisText(Rat(-1, 2), "Bug"), NestedAnswer }) :
          WfAiAttemptReturns(k, AiText(t))
    \/ \E req \in QueryRequests : ChatRequest(req)
    \/ \E t \in FencedTexts({ IntentText("bugs_recent", 6, 0, "", ""), << LBrace, RBrace >> }) :
          ChatRouterReturns(AiText(t))
    \/ ChatLookup
    \/ \E t \in FencedTexts(ExtractObjects \ { AnalysisText(Rat(-1, 2), "Bug") }) :
          ChatComposerReturns(AiText(t))

SpecExtract == ChatInit /\ [][ExtractNext]_vars

\* the text is the object in fences with brace-free prose around it
IsFenced(resp, obj) ==
    /\ resp.kind = "text"
    /\ \E pre \in Proses, post \in Proses : resp.response = pre \o Fenced(obj) \o post

\* C26, for the regex extractor of enrichment and of intent routing: the
\* value extracted from a fenced JSON object, with or without brace-free
\* prose around, equals the value of parsing the object itself.
C26_RegexExtractsFencedObject ==
    \A obj \in ExtractObjects :
        /\ \A k \in 1..Len(wf) :
              IsFenced(wf[k].response, obj) => wf[k].analysis = JsonParse(obj).v
        /\ IsFenced(chat.routerResponse, obj) => chat.intentData = JsonParse(obj).v

\* an analysis and an intent have been extracted from fenced texts with
\* prose before and after
C26_Witness ==
    /\ Len(wf) > 0
    /\ wf[1].response = AiText(<<Word>> \o Fenced(AnalysisText(Rat(-1, 2), "Bug")) \o <<Word>>)
    /\ wf[1].analysis = JsonParse(AnalysisText(Rat(-1, 2), "Bug")).v
    /\ chat.routerResponse =
          AiText(<<Word>> \o Fenced(IntentText("bugs_recent", 6, 0, "", "")) \o <<Word>>)
    /\ Prop(chat.intentData, "intent") = JStr("bugs_recent")

\* C26, for all three extractors: also the structured answer extracted from
\* a fenced JSON object equals the value of parsing the object itself.
C26_ExtractsFencedObject ==
    /\ C26_RegexExtractsFencedObject
    /\ \A obj \in ExtractObjects :
          (variant = "structured" /\ chat.pc = "responded" /\ chat.status = 200
             /\ IsFenced(chat.composerResponse, obj))
            => chat.body = JsonParse(obj).v

(***************************************************************************)
(* SpecBraceFree: enrichment and intent routing over model texts without   *)
(* any brace.                                                              *)
(***************************************************************************)
BraceFreeTexts ==
    { << >>,
      << Word, Word >>,
      << FenceJson, Word, Fence >>,
      << Lit(JNull) >>,
      << Lit(JNum(Rat(42, 1))) >>,
      << Lit(JStr("help")) >> }

BraceFreeNext ==
    \/ \E body \in PipelineBodies, r \in RandomIndexes : Ingest(body, r)
    \/ \E k \in 1..MaxInstances, t \in BraceFreeTexts : WfAiAttemptReturns(k, AiText(t))
    \/ \E k \in 1..MaxInstances : WfCalculateAndStore(k)
    \/ \E req \in QueryRequests : ChatRequest(req)
    \/ \E t \in BraceFreeTexts : ChatRouterReturns(AiText(t))
    \/ ChatComposerReturns(AiText(<< Word, Word >>))

SpecBraceFree == Init /\ [][BraceFreeNext]_vars

\* the response is a text with neither "{" nor "}" in it
BraceFree(resp) ==
    /\ resp.kind = "text"
    /\ Indexes(resp.response, "{") = {} /\ Indexes(resp.response, "}") = {}

\* C27: for every model text without "{" and without "}", texts that are
\* themselves JSON (null, 42, a quoted string) included, the enrichment step
\* returns the fallback record, and the intent router yields help with
\* all-zero params and goes on to the composer without a lookup.
C27_BraceFreeGivesFallback ==
    /\ \A k \in 1..Len(wf) :
          BraceFree(wf[k].response) => wf[k].analysis = FallbackAnalysis
    /\ BraceFree(chat.routerResponse) =>
          /\ chat.intentData = DefaultIntent
          /\ chat.error = "none"
          /\ chat.lookups = 0

\* the same for the brace-free texts that are not JSON values
C27_NonJsonGivesFallback ==
    /\ \A k \in 1..Len(wf) :
          (BraceFree(wf[k].response) /\ ~JsonParse(wf[k].response.response).ok)
             => wf[k].analysis = FallbackAnalysis
    /\ (BraceFree(chat.routerResponse) /\ ~JsonParse(chat.routerResponse.response).ok) =>
          /\ chat.intentData = DefaultIntent
          /\ chat.error = "none"
          /\ chat.lookups = 0

\* the router answered null and the request ended in the catch-all with a
\* TypeError
C27_NullIntentCaught ==
    /\ chat.routerResponse = AiText(<< Lit(JNull) >>)
    /\ chat.pc = "responded" /\ chat.status = 500 /\ chat.error = "TypeError"

\* where the handler of POST /chat is: in the router invocation of the
\* helper (an attempt or the wait between two), in the lookup, in the
\* composer invocation, or outside ("idle", "responded")
Phase(c) ==
    CASE c.pc \in {"router", "router-backoff"} -> "router"
      [] c.pc \in {"composer", "composer-backoff"} -> "composer"
      [] OTHER -> c.pc

LookupIntents == {"top_issues", "bugs_recent", "search", "summary", "issue_drilldown"}

HasLookupIntent(c) == \E name \in LookupIntents : IntentIs(c, name)

\* the lookups a request with this intent has made once its lookup phase is
\* over
LookupsOf(c) == IF HasLookupIntent(c) THEN 1 ELSE 0

\* C28: an authorized POST /chat request goes through its phases in one
\* order only: the router invocation, then the lookup (for top_issues,
\* bugs_recent, search, summary and issue_drilldown; skipped for help), then
\* the composer invocation, then the response.  A phase is entered at most
\* once per request, so there are at most two helper invocations and at most
\* one lookup; the lookup starts only when the router call has returned, the
\* composer call only when the lookup (if any) has returned, and a 200
\* response is sent only when the composer call has returned.
C28_RouterLookupComposer ==
    /\ [][ Phase(chat') # Phase(chat) =>
             CASE Phase(chat) \in {"idle", "responded"} ->
                    /\ Phase(chat') \in {"router", "responded"}
                    /\ chat'.lookups = 0
                    /\ chat'.routerResponse = NoResponse
                    /\ chat'.composerResponse = NoResponse
               [] Phase(chat) = "router" ->
                    /\ chat'.lookups = 0
                    /\ \/ Phase(chat') = "lookup" /\ HasLookupIntent(chat')
                             /\ chat'.routerResponse # NoResponse
                       \/ Phase(chat') = "composer" /\ ~HasLookupIntent(chat')
                             /\ chat'.routerResponse # NoResponse
                       \/ Phase(chat') = "responded" /\ chat'.status = 500
               [] Phase(chat) = "lookup" ->
                    /\ Phase(chat') = "composer"
                    /\ chat'.lookups = 1
               [] Phase(chat) = "composer" ->
                    /\ Phase(chat') = "responded"
                    /\ chat'.lookups = chat.lookups
                    /\ chat'.status = 200 => chat'.composerResponse # NoResponse
               [] OTHER -> FALSE ]_vars
    /\ [][ Phase(chat') = Phase(chat) =>
             \/ chat'.lookups = chat.lookups
             \/ Phase(chat) = "responded" /\ chat'.lookups = 0 ]_vars
    /\ [](Phase(chat) \in {"router", "lookup"} =>
             chat.lookups = 0 /\ chat.composerResponse = NoResponse)
    /\ [](Phase(chat) = "composer" =>
             /\ chat.routerResponse # NoResponse
             /\ chat.composerResponse = NoResponse
             /\ chat.lookups = LookupsOf(chat))
    /\ [](chat.pc = "responded" /\ chat.status = 200 =>
             /\ chat.routerResponse # NoResponse
             /\ chat.composerResponse # NoResponse
             /\ chat.lookups = LookupsOf(chat))

\* a request answered after a router invocation that needed a retry, one
\* lookup and a composer invocation that needed a retry
C28_Witness ==
    /\ chat.pc = "responded" /\ chat.status = 200
    /\ requireAuth(chat.request)
    /\ IntentIs(chat, "bugs_recent")
    /\ chat.lookups = 1
    /\ chat.calls = 2

InBackoff == chat.pc \in {"router-backoff", "composer-backoff"}

\* C29: in an invocation of runAIWithRetry the wait after the k-th failed
\* attempt (k = 1, 2) is k * 1000 ms; an attempt is made only when no wait
\* is pending, and as many waits have elapsed as attempts have failed; the
\* third failure ends the invocation without a wait, and so does a success.
C29_LinearBackoff ==
    /\ [](InBackoff => /\ Len(chat.failed) \in {1, 2}
                       /\ chat.wait = Len(chat.failed) * 1000)
    /\ [](~InBackoff => chat.wait = 0)
    /\ []((RouterCallRunning \/ ComposerCallRunning) =>
             chat.i = Len(chat.failed) - (IF InBackoff THEN 1 ELSE 0))
    /\ [][ Len(chat'.failed) = Len(chat.failed) + 1 =>
             /\ ~InBackoff
             /\ IF Len(chat'.failed) = 3
                   THEN chat'.pc = "responded" /\ chat'.wait = 0
                   ELSE chat'.pc \in {"router-backoff", "composer-backoff"} ]_vars
    /\ [][ ( \/ /\ chat'.routerResponse # chat.routerResponse
                  /\ chat'.routerResponse # NoResponse
               \/ /\ chat'.composerResponse # chat.composerResponse
                  /\ chat'.composerResponse # NoResponse ) =>
             /\ ~InBackoff
             /\ chat'.wait = 0
             /\ chat'.pc \notin {"router-backoff", "composer-backoff"} ]_vars

\* the composer invocation waits 2000 ms after its second failed attempt
C29_Witness ==
    /\ chat.pc = "composer-backoff"
    /\ Len(chat.failed) = 2
    /\ chat.wait = 2000

\* the step on which the third attempt of the model call of instance k fails
ThirdAttemptFails(k) ==
    /\ wf[k].pc = "ai-enrichment"
    /\ wf[k].i = Retries
    /\ wf'[k] # wf[k]
    /\ wf'[k].response = NoResponse

\* C30: the fallback record comes from a model response only (one that did
\* not parse, C5), never from a failed model call: when the third attempt
\* fails the ai-enrichment step fails with the error of that attempt (the
\* executor runs the step again or ends the instance errored), it leaves no
\* analysis, calculate-and-store does not run and nothing is inserted; an
\* instance has an analysis, reaches calculate-and-store or has a row only
\* after an execution of the step has obtained a model response.
C30_ExhaustedCallFailsStep ==
    /\ [][ \A k \in 1..Len(wf) : ThirdAttemptFails(k) =>
              /\ \/ /\ wf'[k].pc = "ai-enrichment"
                    /\ wf'[k].stepFailures = wf[k].stepFailures + 1
                    /\ wf'[k].i = 0
                 \/ /\ wf'[k].pc = "errored"
                    /\ wf'[k].error \in AiErrors
                    /\ wf[k].stepFailures = MaxStepRetries
              /\ wf'[k].analysis = JUndefined
              /\ feedback' = feedback ]_vars
    /\ [](\A k \in 1..Len(wf) :
            /\ wf[k].analysis # JUndefined => Answered(k)
            /\ wf[k].pc \in {"calculate-and-store", "complete"} => Answered(k)
            /\ (wf[k].pc = "errored" /\ wf[k].error \in AiErrors) =>
                  ~Answered(k) /\ wf[k].analysis = JUndefined)
    /\ [](Cardinality(feedback) <=
            Cardinality({ k \in 1..Len(wf) : Answered(k) /\ wf[k].pc = "complete" }))

\* one instance has ended errored on failed model calls, with no analysis
\* and no row, while the step of the other has failed once on three failed
\* attempts and is being executed again
C30_Witness ==
    /\ Len(wf) = 2
    /\ wf[1].pc = "errored" /\ wf[1].error = "AiTimeout" /\ wf[1].analysis = JUndefined
    /\ wf[2].pc = "backoff" /\ wf[2].stepFailures = 1 /\ wf[2].i = 1
    /\ feedback = {}


=============================================================================
